---- MODULE Spec2Model ----
(***************************************************************************)
(* A model of pySUT (src/pysut/pySUT.py): the SUT object, its derived      *)
(* matrices (E_bar, Xi, Gamma, PHI), the allocation constructs and the     *)
(* helper functions they share.                                            *)
(*                                                                         *)
(* Numbers.  numpy computes in binary floating point; the model computes   *)
(* in exact rational arithmetic (a number is a reduced fraction <<n, d>>   *)
(* with d > 0).  Rounding, overflow to inf and NaN are outside the model.  *)
(*                                                                         *)
(* Arrays.  A 2-d array is a record [nr, nc, a] with a[<<i, j>>] its       *)
(* entry in row i and column j, both counted from 1 (numpy counts from 0). *)
(* A 1-d array is a record [n, v] with v[i] its entry i; a boolean filter *)
(* (nn_in, nn_out) is a 1-d array of booleans.                             *)
(***************************************************************************)
EXTENDS Integers, Sequences, FiniteSets, TLC

(***************************************************************************)
(* Bounds of the model.                                                    *)
(***************************************************************************)
\* largest entry of an enumerated supply table
MaxVal == 2
\* largest nmax handed to aac_agg
MaxN == 2
\* largest res_tol handed to aac_agg
MaxTol == 2
\* the most build_E_bar calls on one object
MaxBuilds == 2
\* the most calls made on one object over its life
MaxCalls == 4

(***************************************************************************)
(* Exact rational numbers.                                                 *)
(***************************************************************************)
Abs(x) == IF x < 0 THEN -x ELSE x

RECURSIVE GCD(_, _)
GCD(a, b) == IF b = 0 THEN a ELSE GCD(b, a % b)

\* the reduced fraction n/d (d # 0)
Rat(n, d) ==
  LET s == IF d < 0 THEN -1 ELSE 1
      g == GCD(Abs(n), Abs(d))
  IN  <<(s * n) \div g, (s * d) \div g>>

R(n) == <<n, 1>>
RZero == <<0, 1>>
ROne == <<1, 1>>
RAdd(x, y) == IF x[2] = 1 /\ y[2] = 1 THEN <<x[1] + y[1], 1>>
              ELSE Rat(x[1] * y[2] + y[1] * x[2], x[2] * y[2])
RNeg(x) == <<-x[1], x[2]>>
RSub(x, y) == RAdd(x, RNeg(y))
RMul(x, y) == IF x[2] = 1 /\ y[2] = 1 THEN <<x[1] * y[1], 1>>
              ELSE Rat(x[1] * y[1], x[2] * y[2])
\* 1/x for x # 0
RInv(x) == Rat(x[2], x[1])
RAbs(x) == <<Abs(x[1]), x[2]>>
RLt(x, y) == x[1] * y[2] < y[1] * x[2]
RLe(x, y) == x[1] * y[2] <= y[1] * x[2]

RECURSIVE RSumTo(_, _)
RSumTo(s, k) == IF k = 0 THEN RZero ELSE RAdd(RSumTo(s, k - 1), s[k])
\* the sum of a sequence of rationals
RSum(s) == RSumTo(s, Len(s))

(***************************************************************************)
(* 2-d arrays.                                                             *)
(***************************************************************************)
\* TLC evaluates a function constructor anew at every application; comparing
\* the function makes TLC tabulate it once.  Force(f) is f.
Force(f) == IF f = f THEN f ELSE f

Mk(nr, nc, f(_, _)) ==
  [nr |-> nr, nc |-> nc,
   a |-> Force([p \in (1..nr) \X (1..nc) |-> f(p[1], p[2])])]

\* the array written as a tuple of rows of integers
IntMat(rows) ==
  Mk(Len(rows), IF Len(rows) = 0 THEN 0 ELSE Len(rows[1]),
     LAMBDA i, j : R(rows[i][j]))

\* the array written as a tuple of rows of rationals
RatMat(rows) ==
  Mk(Len(rows), IF Len(rows) = 0 THEN 0 ELSE Len(rows[1]),
     LAMBDA i, j : rows[i][j])

At(A, i, j) == A.a[<<i, j>>]
Size(A) == A.nr * A.nc
Zeros(nr, nc) == Mk(nr, nc, LAMBDA i, j : RZero)
Eye(n) == Mk(n, n, LAMBDA i, j : IF i = j THEN ROne ELSE RZero)
\* A.T
T(A) == Mk(A.nc, A.nr, LAMBDA i, j : At(A, j, i))
\* A.dot(B), for A.nc = B.nr
Dot(A, B) ==
  Mk(A.nr, B.nc,
     LAMBDA i, j : RSum([k \in 1..A.nc |-> RMul(At(A, i, k), At(B, k, j))]))
\* A + B, A - B and A * B (entry by entry), for arrays of one shape
Plus(A, B) == Mk(A.nr, A.nc, LAMBDA i, j : RAdd(At(A, i, j), At(B, i, j)))
Minus(A, B) == Mk(A.nr, A.nc, LAMBDA i, j : RSub(At(A, i, j), At(B, i, j)))
Had(A, B) == Mk(A.nr, A.nc, LAMBDA i, j : RMul(At(A, i, j), At(B, i, j)))
Scale(c, A) == Mk(A.nr, A.nc, LAMBDA i, j : RMul(c, At(A, i, j)))
\* a 1-d array: [n |-> its length, v |-> its entries]
Vec(s) == [n |-> Len(s), v |-> Force(s)]
ndim(x) == IF "nc" \in DOMAIN x THEN 2 ELSE 1
\* x.size
size(x) == IF ndim(x) = 2 THEN x.nr * x.nc ELSE x.n
\* np.empty(0)
Empty0 == Vec(<<>>)
\* np.sum(A, 1) and np.sum(A, 0): the row sums and the column sums
RowSums(A) == Vec([i \in 1..A.nr |-> RSum([j \in 1..A.nc |-> At(A, i, j)])])
ColSums(A) == Vec([j \in 1..A.nc |-> RSum([i \in 1..A.nr |-> At(A, i, j)])])
\* np.sum(A): the sum of all entries
SumAll(A) == RSum(RowSums(A).v)
\* np.diag(v) of a 1-d array
Diag(x) == Mk(x.n, x.n, LAMBDA i, j : IF i = j THEN x.v[i] ELSE RZero)
\* np.diag(A) of a 2-d array: its main diagonal
DiagOf(A) ==
  LET k == IF A.nr < A.nc THEN A.nr ELSE A.nc
  IN  Vec([i \in 1..k |-> At(A, i, i)])
\* v.dot(A) and A.dot(v) with a 1-d array v
VecDot(x, A) ==
  Vec([j \in 1..A.nc |-> RSum([k \in 1..A.nr |-> RMul(x.v[k], At(A, k, j))])])
DotVec(A, x) ==
  Vec([i \in 1..A.nr |-> RSum([k \in 1..A.nc |-> RMul(At(A, i, k), x.v[k])])])
\* np.ones(n)
Ones(n) == Vec([i \in 1..n |-> ROne])

\* the positions kept by a boolean filter (a 1-d array of booleans), in order
RECURSIVE KeptTo(_, _)
KeptTo(nn, k) ==
  IF k = 0 THEN <<>>
  ELSE IF nn.v[k] THEN Append(KeptTo(nn, k - 1), k) ELSE KeptTo(nn, k - 1)
Kept(nn) == KeptTo(nn, nn.n)
\* x[nn], A[nn, :] and A[:, nn] with a boolean filter nn
SelVec(x, nn) == LET k == Kept(nn) IN Vec([i \in 1..Len(k) |-> x.v[k[i]]])
SelRows(A, nn) ==
  LET k == Kept(nn) IN Mk(Len(k), A.nc, LAMBDA i, j : At(A, k[i], j))
SelCols(A, nn) ==
  LET k == Kept(nn) IN Mk(A.nr, Len(k), LAMBDA i, j : At(A, i, k[j]))

(***************************************************************************)
(* Exceptions.  An operation that raises yields [exc |-> its type].        *)
(***************************************************************************)
Raise(e) == [exc |-> e]
Raised(x) == "exc" \in DOMAIN x
None == [none |-> TRUE]
IsNone(x) == "none" \in DOMAIN x

(***************************************************************************)
(* np.linalg.inv.  A singular or non-square array raises LinAlgError; in   *)
(* exact arithmetic singular means a zero determinant.                     *)
(***************************************************************************)
\* A without row r and column c
Minor(A, r, c) ==
  Mk(A.nr - 1, A.nc - 1,
     LAMBDA i, j : At(A, IF i < r THEN i ELSE i + 1, IF j < c THEN j ELSE j + 1))

RECURSIVE Det(_)
Det(A) ==
  IF A.nr = 0 THEN ROne
  ELSE IF A.nr = 1 THEN At(A, 1, 1)
  ELSE RSum([j \in 1..A.nc |->
              RMul(IF j % 2 = 1 THEN At(A, 1, j) ELSE RNeg(At(A, 1, j)),
                   Det(Minor(A, 1, j)))])

\* the adjugate of A, which exists for a singular A as well
Inv_adjugate(A) ==
  IF A.nr # A.nc THEN Raise("LinAlgError")
  ELSE Mk(A.nr, A.nr,
          LAMBDA i, j :
            RMul(IF (i + j) % 2 = 0 THEN ROne ELSE RNeg(ROne),
                 Det(Minor(A, j, i))))

Inv(A) ==
  IF A.nr # A.nc THEN Raise("LinAlgError")
  ELSE LET d == Det(A)
       IN  IF d = RZero THEN Raise("LinAlgError")
           ELSE Mk(A.nr, A.nr,
                   LAMBDA i, j :
                     RMul(RInv(d),
                          RMul(IF (i + j) % 2 = 0 THEN ROne ELSE RNeg(ROne),
                               Det(Minor(A, j, i)))))

(***************************************************************************)
(* Helper functions outside the object.                                    *)
(***************************************************************************)
\* ddiag(a), with nozero = False.  np.squeeze of a 1 x 1 array is 0-d, and
\* np.diag of a 0-d array raises ValueError; the reshape of the "extreme
\* case" is never taken, since np.diag of a 1-d array is 2-d.
\* a ddiag that refuses a 2-d array that is neither square nor a row nor a
\* column
ddiag_square_only(a) ==
  IF ndim(a) = 1 THEN Diag(a)
  ELSE IF a.nr = 1 /\ a.nc = 1 THEN Raise("ValueError")
  ELSE IF a.nr = 1 /\ a.nc > 1 THEN Diag(Vec([j \in 1..a.nc |-> At(a, 1, j)]))
  ELSE IF a.nc = 1 /\ a.nr > 1 THEN Diag(Vec([i \in 1..a.nr |-> At(a, i, 1)]))
  ELSE IF a.nr # a.nc THEN Raise("ValueError")
  ELSE Diag(DiagOf(a))

ddiag(a) ==
  IF ndim(a) = 1 THEN Diag(a)
  ELSE IF a.nr = 1 /\ a.nc = 1 THEN Raise("ValueError")
  ELSE IF a.nr = 1 /\ a.nc > 1 THEN Diag(Vec([j \in 1..a.nc |-> At(a, 1, j)]))
  ELSE IF a.nc = 1 /\ a.nr > 1 THEN Diag(Vec([i \in 1..a.nr |-> At(a, i, 1)]))
  ELSE Diag(DiagOf(a))

\* diaginv(x): 1/x on the diagonal, 0 where x is 0
diaginv(x) ==
  ddiag(Vec([i \in 1..x.n |-> IF x.v[i] = RZero THEN RZero ELSE RInv(x.v[i])]))

\* restore_size(X, nn_in, nn_out); a filter that is not given is None
restore_size(X, nn_in, nn_out) ==
  IF size(X) = 0 THEN X
  ELSE LET rk == IF IsNone(nn_in) THEN <<>> ELSE Kept(nn_in)
           X0 == IF IsNone(nn_in) THEN X
                 ELSE Mk(nn_in.n, X.nc,
                         LAMBDA i, j :
                           IF nn_in.v[i]
                           THEN At(X, CHOOSE k \in 1..Len(rk) : rk[k] = i, j)
                           ELSE RZero)
           ck == IF IsNone(nn_out) THEN <<>> ELSE Kept(nn_out)
       IN  IF IsNone(nn_out) THEN X0
           ELSE Mk(X0.nr, nn_out.n,
                   LAMBDA i, j :
                     IF nn_out.v[j]
                     THEN At(X0, i, CHOOSE k \in 1..Len(ck) : ck[k] = j)
                     ELSE RZero)

\* matrix_norm(Z, V, F_con, keep_size, just_filters) for a 2-d Z (collapse_dims
\* is not reached): [A, S, nn_in, nn_out], only the filters with just_filters.
\* q_tr is assigned only when max(Z.shape) = com * ind: reading it otherwise
\* is a NameError.
q_tr_of(V) ==
  Vec([k \in 1..(V.nr * V.nc) |->
         At(V, ((k - 1) % V.nr) + 1, ((k - 1) \div V.nr) + 1)])

\* a variant of nn_in_of that keeps every row
nn_in_all(q, u) == Vec([r \in 1..q.n |-> TRUE])

nn_in_of(q, u) ==
  Vec([r \in 1..q.n |-> RAdd(RAbs(q.v[r]), RAbs(u.v[r])) # RZero])

nn_out_of(q) == Vec([c \in 1..q.n |-> q.v[c] # RZero])

\* a variant of matrix_norm that returns the filters, when only they are
\* asked for, before it looks at the columns of Z
matrix_norm_filters_first(Z, V, F_con, keep_size, just_filters) ==
  LET com == V.nr
      ind == V.nc
      q == RowSums(V)
      u == RowSums(Z)
      has_q_tr == (IF Z.nr > Z.nc THEN Z.nr ELSE Z.nc) = com * ind
      q_tr == q_tr_of(V)
      rows_com == Z.nr = com
      cols_com == Z.nc = com
      nn_in == IF rows_com THEN nn_in_of(q, u) ELSE nn_in_of(q_tr, u)
      q_out == IF cols_com THEN q ELSE q_tr
      nn_out == nn_out_of(q_out)
      q_inv == Inv(ddiag(SelVec(q_out, nn_out)))
      A == Dot(SelCols(SelRows(Z, nn_in), nn_out), q_inv)
      S == IF size(F_con) # 0 THEN Dot(SelCols(F_con, nn_out), q_inv)
           ELSE Empty0
  IN  IF ~rows_com /\ Z.nr # com * ind THEN Raise("Exception")
      ELSE IF ~rows_com /\ ~has_q_tr THEN Raise("NameError")
      ELSE IF just_filters THEN [nn_in |-> nn_in, nn_out |-> nn_out]
      ELSE IF ~cols_com /\ Z.nc # com * ind THEN Raise("Exception")
      ELSE IF ~cols_com /\ ~has_q_tr THEN Raise("NameError")
      ELSE IF Raised(q_inv) THEN q_inv
      ELSE [A |-> IF keep_size THEN restore_size(A, nn_in, nn_out) ELSE A,
            S |-> IF keep_size THEN restore_size(S, None, nn_out) ELSE S,
            nn_in |-> nn_in, nn_out |-> nn_out]

matrix_norm(Z, V, F_con, keep_size, just_filters) ==
  LET com == V.nr
      ind == V.nc
      q == RowSums(V)
      u == RowSums(Z)
      has_q_tr == (IF Z.nr > Z.nc THEN Z.nr ELSE Z.nc) = com * ind
      q_tr == q_tr_of(V)
      rows_com == Z.nr = com
      cols_com == Z.nc = com
      nn_in == IF rows_com THEN nn_in_of(q, u) ELSE nn_in_of(q_tr, u)
      q_out == IF cols_com THEN q ELSE q_tr
      nn_out == nn_out_of(q_out)
      q_inv == Inv(ddiag(SelVec(q_out, nn_out)))
      A == Dot(SelCols(SelRows(Z, nn_in), nn_out), q_inv)
      S == IF size(F_con) # 0 THEN Dot(SelCols(F_con, nn_out), q_inv)
           ELSE Empty0
  IN  IF ~rows_com /\ Z.nr # com * ind THEN Raise("Exception")
      ELSE IF ~rows_com /\ ~has_q_tr THEN Raise("NameError")
      ELSE IF ~cols_com /\ Z.nc # com * ind THEN Raise("Exception")
      ELSE IF ~cols_com /\ ~has_q_tr THEN Raise("NameError")
      ELSE IF Raised(q_inv) THEN q_inv
      ELSE IF just_filters THEN [nn_in |-> nn_in, nn_out |-> nn_out]
      ELSE [A |-> IF keep_size THEN restore_size(A, nn_in, nn_out) ELSE A,
            S |-> IF keep_size THEN restore_size(S, None, nn_out) ELSE S,
            nn_in |-> nn_in, nn_out |-> nn_out]

(***************************************************************************)
(* The primary production map.                                             *)
(***************************************************************************)
\* a variant of argmax_abs that returns the last maximum of the column
argmax_abs_last(A, j) ==
  CHOOSE i \in 1..A.nr :
    /\ \A k \in 1..A.nr : RLe(RAbs(At(A, k, j)), RAbs(At(A, i, j)))
    /\ \A k \in (i + 1)..A.nr : RLt(RAbs(At(A, k, j)), RAbs(At(A, i, j)))

\* np.argmax(np.abs(A), axis=0)[j]: the first row of the largest |A[i, j]|
argmax_abs(A, j) ==
  CHOOSE i \in 1..A.nr :
    /\ \A k \in 1..A.nr : RLe(RAbs(At(A, k, j)), RAbs(At(A, i, j)))
    /\ \A k \in 1..(i - 1) : RLt(RAbs(At(A, k, j)), RAbs(At(A, i, j)))

\* a variant of done_seed that marks no column: the diagonal is not preferred
done_never(V) == Force([i \in 1..V.nc |-> FALSE])

\* the done filter and E_bar after the diagonal seed of a square V
done_seed(V) ==
  Force([i \in 1..V.nc |-> V.nr = V.nc /\ At(V, i, i) # RZero])

E_bar_seed(V) ==
  Mk(V.nr, V.nc,
     LAMBDA p, i : IF p = i /\ done_seed(V)[i] THEN ROne ELSE RZero)

\* a variant of V_exclusive_of that takes every product for exclusive
V_exclusive_any(V, done) ==
  Mk(V.nr, V.nc, LAMBDA p, i : IF ~done[i] THEN At(V, p, i) ELSE RZero)

\* V_exclusive: the supply of products with one supplier, in the columns
\* not done
V_exclusive_of(V, done) ==
  LET exclusive_product ==
        [p \in 1..V.nr |->
           Cardinality({i \in 1..V.nc : At(V, p, i) # RZero}) = 1]
  IN  Mk(V.nr, V.nc,
         LAMBDA p, i :
           IF exclusive_product[p] /\ ~done[i] THEN At(V, p, i) ELSE RZero)

\* a variant of max_flags that flags every nonzero entry of a column
all_flags(X) ==
  Force([p \in (1..X.nr) \X (1..X.nc) |-> At(X, p[1], p[2]) # RZero])

\* X_max[max_in_column, cols] = X[max_in_column, cols], as a boolean array
max_flags(X) ==
  Force([p \in (1..X.nr) \X (1..X.nc) |->
           p[1] = argmax_abs(X, p[2]) /\ At(X, p[1], p[2]) # RZero])

\* the E_bar that build_E_bar(prefer_exclusive) assigns
E_bar_of(V, prefer_exclusive) ==
  LET E0 == E_bar_seed(V)
      excl == max_flags(V_exclusive_of(V, done_seed(V)))
      E1 == IF prefer_exclusive
            THEN Mk(V.nr, V.nc,
                    LAMBDA p, i : IF excl[<<p, i>>] THEN ROne ELSE At(E0, p, i))
            ELSE E0
      done == IF prefer_exclusive
              THEN [i \in 1..V.nc |-> ColSums(E1).v[i] # RZero]
              ELSE done_seed(V)
      vmax == max_flags(V)
  IN  Mk(V.nr, V.nc,
         LAMBDA p, i :
           IF done[i] THEN At(E1, p, i)
           ELSE IF vmax[<<p, i>>] THEN ROne ELSE RZero)

\* self.V_bar() and self.V_tild(); V * None and 1 - None raise TypeError
V_bar_of(V, Eb) ==
  IF IsNone(Eb) /\ V.nr = V.nc THEN ddiag(V)
  ELSE IF IsNone(Eb) THEN Raise("TypeError")
  ELSE Had(V, Eb)

V_tild_of(V, Eb) ==
  IF IsNone(Eb) /\ V.nr = V.nc
  THEN (IF Raised(ddiag(V)) THEN ddiag(V) ELSE Minus(V, ddiag(V)))
  ELSE IF IsNone(Eb) THEN Raise("TypeError")
  ELSE Had(V, Mk(Eb.nr, Eb.nc, LAMBDA p, i : RSub(ROne, At(Eb, p, i))))

(***************************************************************************)
(* The constructs, as functions of the fields they read.  Each yields the  *)
(* tuple it returns, as a record, or the exception it raises.  The fields  *)
(* U and V have one shape, F has a column per industry, E_bar (when not    *)
(* None) has the shape of V, Xi is com x com and Gamma is ind x com.       *)
(***************************************************************************)
\* self.g_V() and self.q_V()
g_V(V) == ColSums(V)
q_V(V) == RowSums(V)

\* a variant of With_flows that hands out the normalised extensions S in the
\* place of the flows F_con
With_coefficients(r, Z, F_con) ==
  IF Raised(r) THEN r
  ELSE [A |-> r.A, S |-> r.S, nn_in |-> r.nn_in, nn_out |-> r.nn_out,
        Z |-> Z, F_con |-> r.S]

\* the tuple (A, S, nn_in, nn_out, Z, F_con) from matrix_norm's result
With_flows(r, Z, F_con) ==
  IF Raised(r) THEN r
  ELSE [A |-> r.A, S |-> r.S, nn_in |-> r.nn_in, nn_out |-> r.nn_out,
        Z |-> Z, F_con |-> F_con]

\* the tuple returned under return_unnormalized_flows
Flows_if(r, Z, F_con, return_unnormalized_flows) ==
  IF return_unnormalized_flows THEN With_flows(r, Z, F_con) ELSE r

\* X.dot(K) for the extensions F, np.empty(0) when F is None
F_alloc(F, K) == IF IsNone(F) THEN Empty0 ELSE Dot(F, K)

\* an itc that insists on a square supply table
itc_of_square_only(V, U, F, keep_size) ==
  LET g_diag_inv == diaginv(g_V(V))
      Z == Dot(Dot(U, g_diag_inv), T(V))
      F_con == IF IsNone(F) THEN Empty0 ELSE Dot(Dot(F, g_diag_inv), T(V))
  IN  IF V.nr # V.nc THEN Raise("ValueError")
      ELSE With_flows(matrix_norm(Z, V, F_con, keep_size, FALSE), Z, F_con)

itc_of(V, U, F, keep_size) ==
  LET g_diag_inv == diaginv(g_V(V))
      Z == Dot(Dot(U, g_diag_inv), T(V))
      F_con == IF IsNone(F) THEN Empty0 ELSE Dot(Dot(F, g_diag_inv), T(V))
  IN  With_flows(matrix_norm(Z, V, F_con, keep_size, FALSE), Z, F_con)

(***************************************************************************)
(* The legacy method Build_ITC_A_matrix_cxc.  np.linalg.inv raises         *)
(* LinAlgError on the diagonal matrix of a g or a q with a zero; the bare  *)
(* except turns every exception of the block into ValueError.  The method  *)
(* assigns the attributes g_hat_inv, q_hat_inv and A_ITC_cxc, which no     *)
(* other method modelled here reads: the result holds the ones the call    *)
(* has assigned, and A_ITC_cxc is what it returns.                         *)
(***************************************************************************)
\* a variant that leaves out the division by the product outputs q
Build_ITC_A_matrix_cxc_unscaled(V, U) ==
  LET g_hat_inv == Inv(Diag(g_V(V)))
      q_hat_inv == Inv(Diag(q_V(V)))
  IN  IF Raised(g_hat_inv) THEN Raise("ValueError")
      ELSE IF Raised(q_hat_inv)
      THEN [exc |-> "ValueError", g_hat_inv |-> g_hat_inv]
      ELSE [g_hat_inv |-> g_hat_inv, q_hat_inv |-> q_hat_inv,
            A_ITC_cxc |-> Dot(Dot(U, g_hat_inv), T(V))]

Build_ITC_A_matrix_cxc_of(V, U) ==
  LET g_hat_inv == Inv(Diag(g_V(V)))
      q_hat_inv == Inv(Diag(q_V(V)))
  IN  IF Raised(g_hat_inv) THEN Raise("ValueError")
      ELSE IF Raised(q_hat_inv)
      THEN [exc |-> "ValueError", g_hat_inv |-> g_hat_inv]
      ELSE [g_hat_inv |-> g_hat_inv, q_hat_inv |-> q_hat_inv,
            A_ITC_cxc |-> Dot(Dot(U, g_hat_inv), Dot(T(V), q_hat_inv))]

\* a ctc that scales the coefficients with the industry output g
ctc_of_by_g(V, U, F, keep_size) ==
  LET inv_V == Inv(V)
      A == Dot(U, inv_V)
      Z == Dot(A, ddiag(g_V(V)))
      S == IF IsNone(F) THEN Empty0 ELSE Dot(F, inv_V)
      F_con == IF IsNone(F) THEN Empty0 ELSE Dot(S, ddiag(g_V(V)))
      f == matrix_norm(Z, V, Empty0, FALSE, TRUE)
  IN  IF Raised(inv_V) THEN inv_V
      ELSE IF Raised(f) THEN f
      ELSE [A |-> A, S |-> S, nn_in |-> f.nn_in, nn_out |-> f.nn_out,
            Z |-> Z, F_con |-> F_con]

ctc_of(V, U, F, keep_size) ==
  LET inv_V == Inv(V)
      A == Dot(U, inv_V)
      Z == Dot(A, ddiag(q_V(V)))
      S == IF IsNone(F) THEN Empty0 ELSE Dot(F, inv_V)
      F_con == IF IsNone(F) THEN Empty0 ELSE Dot(S, ddiag(q_V(V)))
      f == matrix_norm(Z, V, Empty0, FALSE, TRUE)
  IN  IF Raised(inv_V) THEN inv_V
      ELSE IF Raised(f) THEN f
      ELSE [A |-> A, S |-> S, nn_in |-> f.nn_in, nn_out |-> f.nn_out,
            Z |-> Z, F_con |-> F_con]

\* a btc that normalises the extensions of all products, dropping no column
btc_of_whole_S(V, U, F, Eb, keep_size) ==
  LET fallback == IsNone(Eb) /\ V.nr = F.nc
      E_bar_l == IF fallback THEN Eye(V.nr) ELSE Eb
      Vt == V_tild_of(V, Eb)
      Z == Dot(Minus(U, Vt), T(E_bar_l))
      F_con == F_alloc(F, T(E_bar_l))
      r == With_flows(matrix_norm(Z, V_bar_of(V, Eb), F_con, keep_size, FALSE),
                      Z, F_con)
  IN  IF IsNone(Eb) /\ IsNone(F) THEN Raise("AttributeError")
      ELSE IF Raised(Vt) THEN Vt
      ELSE IF IsNone(E_bar_l) THEN Raise("AttributeError")
      ELSE IF Raised(r) \/ size(F_con) = 0 THEN r
      ELSE [r EXCEPT !.S = Dot(F_con, diaginv(RowSums(V_bar_of(V, Eb))))]

btc_of(V, U, F, Eb, keep_size) ==
  LET fallback == IsNone(Eb) /\ V.nr = F.nc
      E_bar_l == IF fallback THEN Eye(V.nr) ELSE Eb
      Vt == V_tild_of(V, Eb)
      Z == Dot(Minus(U, Vt), T(E_bar_l))
      F_con == F_alloc(F, T(E_bar_l))
  IN  IF IsNone(Eb) /\ IsNone(F) THEN Raise("AttributeError")
      ELSE IF Raised(Vt) THEN Vt
      ELSE IF IsNone(E_bar_l) THEN Raise("AttributeError")
      ELSE With_flows(matrix_norm(Z, V_bar_of(V, Eb), F_con, keep_size, FALSE),
                      Z, F_con)

lsc_of(V, U, F, Eb, keep_size, return_unnormalized_flows) ==
  LET Z == Dot(U, T(Eb))
      V_dd == Dot(Eb, ddiag(g_V(V)))
      F_con == F_alloc(F, T(Eb))
  IN  IF IsNone(Eb) THEN Raise("AttributeError")
      ELSE Flows_if(matrix_norm(Z, V_dd, F_con, keep_size, FALSE),
                    Z, F_con, return_unnormalized_flows)

\* a psc_agg that takes the whole supply, not the secondary one, out of U
psc_agg_of_all_supply(V, U, F, Eb, X, keep_size, return_unnormalized_flows) ==
  LET Vt == V_tild_of(V, Eb)
      Z == Dot(Minus(U, Dot(X, V)), T(Eb))
      F_con == F_alloc(F, T(Eb))
  IN  IF IsNone(X) THEN Raise("AttributeError")
      ELSE IF Raised(Vt) THEN Vt
      ELSE IF IsNone(Eb) THEN Raise("AttributeError")
      ELSE Flows_if(matrix_norm(Z, V_bar_of(V, Eb), F_con, keep_size, FALSE),
                    Z, F_con, return_unnormalized_flows)

psc_agg_of(V, U, F, Eb, X, keep_size, return_unnormalized_flows) ==
  LET Vt == V_tild_of(V, Eb)
      Z == Dot(Minus(U, Dot(X, Vt)), T(Eb))
      F_con == F_alloc(F, T(Eb))
  IN  IF IsNone(X) THEN Raise("AttributeError")
      ELSE IF Raised(Vt) THEN Vt
      ELSE IF IsNone(Eb) THEN Raise("AttributeError")
      ELSE Flows_if(matrix_norm(Z, V_bar_of(V, Eb), F_con, keep_size, FALSE),
                    Z, F_con, return_unnormalized_flows)

\* __pa_coeff: the PHI it assigns, with PSI a com x 1 array; V.T.dot(None)
\* raises TypeError
pa_coeff_of(V, Psi) ==
  LET denominator == ddiag(Dot(T(V), Psi))
      inv_d == Inv(denominator)
      VP == Mk(V.nc, V.nr, LAMBDA i, p : RMul(At(V, p, i), At(Psi, p, 1)))
  IN  IF IsNone(Psi) THEN Raise("TypeError")
      ELSE IF Raised(denominator) THEN denominator
      ELSE IF Raised(inv_d) THEN inv_d
      ELSE Dot(inv_d, VP)

\* pc_agg with self.PHI = Ph (not None)
pc_agg_of(V, U, F, Ph, keep_size) ==
  LET Z == Dot(U, Ph)
      F_con == F_alloc(F, Ph)
  IN  With_flows(matrix_norm(Z, V, F_con, keep_size, FALSE), Z, F_con)

(***************************************************************************)
(* The alternate technology solver, __alternate_tech, with a 2-d Gamma     *)
(* (lay is not used) and traceable = False.                                *)
(***************************************************************************)
\* the locals after "Iteration 0"; res_tol and nmax are the call's
alternate_tech_start(V, Eb, Gm, nmax, res_tol) ==
  LET Vt == V_tild_of(V, Eb)
      Vb == V_bar_of(V, Eb)
      M == Dot(Vt, diaginv(VecDot(Ones(V.nr), Vb)))
      tier == Scale(RNeg(ROne), Dot(Gm, M))
      tier_n == Eye(tier.nr)
  IN  IF Raised(Vt) THEN Vt
      ELSE IF Raised(Vb) THEN Vb
      ELSE IF IsNone(Gm) THEN Raise("AttributeError")
      ELSE [nmax |-> nmax, res_tol |-> res_tol, tier |-> tier,
            tier_n |-> tier_n, theSum |-> Dot(tier_n, Gm), n |-> 1,
            res |-> SumAll(tier_n), printed |-> <<>>]

\* a variant of loop_cond that does not look at the sign of the residual
loop_cond_unsigned(l) == RLt(R(l.res_tol), l.res) /\ l.n <= l.nmax

\* a variant of loop_cond that allows one more pass
loop_cond_late(l) ==
  (RLt(R(l.res_tol), l.res) \/ RLt(l.res, RZero)) /\ l.n <= l.nmax + 1

\* the condition of the while loop
loop_cond(l) ==
  (RLt(R(l.res_tol), l.res) \/ RLt(l.res, RZero)) /\ l.n <= l.nmax

\* a variant of loop_body that adds Gamma itself in every pass
loop_body_resumming(l, Gm) ==
  LET tier_n == Dot(l.tier_n, l.tier)
  IN  [l EXCEPT !.tier_n = tier_n,
                !.theSum = Plus(l.theSum, Gm),
                !.n = l.n + 1,
                !.res = SumAll(tier_n),
                !.printed = Append(l.printed, SumAll(tier_n))]

\* one pass of the while loop; printed holds the residuals it prints
loop_body(l, Gm) ==
  LET tier_n == Dot(l.tier_n, l.tier)
  IN  [l EXCEPT !.tier_n = tier_n,
                !.theSum = Plus(l.theSum, Dot(tier_n, Gm)),
                !.n = l.n + 1,
                !.res = SumAll(tier_n),
                !.printed = Append(l.printed, SumAll(tier_n))]

\* apply_to_requirements(X)
apply_to_requirements(X, V, Eb, theSum) ==
  LET nz == [i \in 1..V.nc |->
               Cardinality({p \in 1..V.nr : At(V, p, i) # RZero})]
      so == Vec([i \in 1..V.nc |-> IF nz[i] = 1 THEN ROne ELSE RZero])
      mo == Vec([i \in 1..V.nc |-> IF nz[i] # 1 THEN ROne ELSE RZero])
      B_so == Dot(Dot(X, diaginv(g_V(V))), ddiag(so))
      N_so == Dot(Dot(X, diaginv(VecDot(Ones(V.nr), V_bar_of(V, Eb)))),
                  ddiag(mo))
  IN  Dot(Plus(B_so, N_so), theSum)

\* an aac_agg that puts the whole output of the products, not the secondary
\* one, on the diagonal
aac_agg_finish_all_output(V, U, F, Eb, l, keep_size) ==
  LET Vt == V_tild_of(V, Eb)
      A_gamma == apply_to_requirements(U, V, Eb, l.theSum)
      F_gamma == apply_to_requirements(F, V, Eb, l.theSum)
      dd == ddiag(DotVec(V, Ones(V.nc)))
      Z == Plus(Dot(Minus(U, Dot(A_gamma, Vt)), T(Eb)), Dot(A_gamma, dd))
      F_con == IF IsNone(F) THEN Empty0
               ELSE Plus(Dot(Minus(F, Dot(F_gamma, Vt)), T(Eb)),
                         Dot(F_gamma, dd))
  IN  IF IsNone(Eb) THEN Raise("AttributeError")
      ELSE With_flows(matrix_norm(Z, V, F_con, keep_size, FALSE), Z, F_con)

\* aac_agg after __alternate_tech has left its loop with the locals l
aac_agg_finish(V, U, F, Eb, l, keep_size) ==
  LET Vt == V_tild_of(V, Eb)
      A_gamma == apply_to_requirements(U, V, Eb, l.theSum)
      F_gamma == apply_to_requirements(F, V, Eb, l.theSum)
      dd == ddiag(DotVec(Vt, Ones(V.nc)))
      Z == Plus(Dot(Minus(U, Dot(A_gamma, Vt)), T(Eb)), Dot(A_gamma, dd))
      F_con == IF IsNone(F) THEN Empty0
               ELSE Plus(Dot(Minus(F, Dot(F_gamma, Vt)), T(Eb)),
                         Dot(F_gamma, dd))
  IN  IF IsNone(Eb) THEN Raise("AttributeError")
      ELSE With_flows(matrix_norm(Z, V, F_con, keep_size, FALSE), Z, F_con)

(***************************************************************************)
(* The substitution matrix Xi and the alternate producers Gamma, for a     *)
(* model of rg regions: the products (industries) of a region are          *)
(* consecutive, and rg divides their number.                               *)
(***************************************************************************)
\* aggregate_within_regions(X, axis=1): one column per region
aggregate_within_regions_cols(X, rg) ==
  LET per == X.nc \div rg
  IN  Mk(X.nr, rg,
         LAMBDA i, r :
           RSum([k \in 1..per |-> At(X, i, (r - 1) * per + k)]))

\* _aggregate_regions_vectorised(X, AV, axis=0) with AV all ones: the rows
\* of one product type summed over the regions
aggregate_regions_rows(X, rg) ==
  LET per == X.nr \div rg
  IN  Mk(per, X.nc,
         LAMBDA t, j :
           RSum([r \in 1..rg |-> At(X, (r - 1) * per + t, j)]))

\* primary_market_shares_of_regions(): region by product type
primary_market_shares_of_regions(V, Eb, rg) ==
  LET Vagg == aggregate_regions_rows(
                aggregate_within_regions_cols(V_bar_of(V, Eb), rg), rg)
      q_bar == RowSums(Vagg)
  IN  Dot(T(Vagg), diaginv(q_bar))

\* e_bar: 1 for the products with a primary producer
e_bar_of(Eb) ==
  LET rs == RowSums(Eb)
  IN  Force([p \in 1..Eb.nr |-> IF rs.v[p] # RZero THEN ROne ELSE RZero])

\* np.diag(e_bar): a product displaces the same product of its region
Xi_local_of(Eb) ==
  Mk(Eb.nr, Eb.nr, LAMBDA i, j : IF i = j THEN e_bar_of(Eb)[i] ELSE RZero)

\* a variant of Xi_glob_of without the filter (1 - e_bar) on the columns
Xi_glob_unmasked(V, Eb, rg) ==
  LET D == primary_market_shares_of_regions(V, Eb, rg)
      per == D.nc
  IN  Mk(Eb.nr, Eb.nr,
         LAMBDA i, j :
           IF ((i - 1) % per) = ((j - 1) % per)
           THEN At(D, ((i - 1) \div per) + 1, ((i - 1) % per) + 1)
           ELSE RZero)

\* Xi_glob: the diagonal matrices of the rows of D stacked and tiled, in
\* the columns of the products without a primary producer
Xi_glob_of(V, Eb, rg) ==
  LET D == primary_market_shares_of_regions(V, Eb, rg)
      per == D.nc
  IN  Mk(Eb.nr, Eb.nr,
         LAMBDA i, j :
           RMul(IF ((i - 1) % per) = ((j - 1) % per)
                THEN At(D, ((i - 1) \div per) + 1, ((i - 1) % per) + 1)
                ELSE RZero,
                RSub(ROne, e_bar_of(Eb)[j])))

\* the Xi that build_mr_Xi assigns
Xi_of(V, Eb, rg) == Plus(Xi_local_of(Eb), Xi_glob_of(V, Eb, rg))

\* the Gamma that build_mr_Gamma assigns
Gamma_of(V, Eb, rg) ==
  LET Vb == V_bar_of(V, Eb)
      rs == RowSums(Eb)
      e_tild == [p \in 1..Eb.nr |-> IF rs.v[p] = RZero THEN ROne ELSE RZero]
      X == T(aggregate_regions_rows(Vb, rg))
      D == Dot(X, diaginv(ColSums(X)))
      per == D.nc
      Dbar == Dot(T(Vb), diaginv(RowSums(Vb)))
  IN  Mk(V.nc, V.nr,
         LAMBDA i, p :
           RAdd(RMul(At(D, i, ((p - 1) % per) + 1), e_tild[p]),
                At(Dbar, i, p)))

(***************************************************************************)
(* The SUT object.  V, U, F, PSI, E_bar, Xi, Gamma, PHI and regions are    *)
(* its attributes (Y, FY and TL stay None and the labels are left out).    *)
(* ret is the last call and what it returned or raised.  pc and loc are    *)
(* the position and the locals of an aac_agg call inside the loop of       *)
(* __alternate_tech: the object has one owner, so nothing else runs        *)
(* while pc = "loop".  calls counts the calls made on the object.          *)
(***************************************************************************)
VARIABLES V, U, F, PSI, E_bar, Xi, Gamma, PHI, regions, pc, loc, ret, calls

vars ==
  <<V, U, F, PSI, E_bar, Xi, Gamma, PHI, regions, pc, loc, ret, calls>>

Ok == [ok |-> TRUE]
Call(op, args, out) == [op |-> op, args |-> args, out |-> out]
NoArgs == [none |-> TRUE]

\* __init__: the attributes as given to the constructor, nothing called yet
Constructed(v, u, f, psi, e_bar, xi, gamma, phi, rg) ==
  /\ V = v /\ U = u /\ F = f /\ PSI = psi
  /\ E_bar = e_bar /\ Xi = xi /\ Gamma = gamma /\ PHI = phi
  /\ regions = rg
  /\ pc = "idle" /\ loc = None
  /\ ret = Call("__init__", NoArgs, Ok)
  /\ calls = 0

\* a call that only returns or raises
Returns(op, args, out) ==
  /\ pc = "idle"
  /\ ret' = Call(op, args, out)
  /\ calls' = calls + 1
  /\ UNCHANGED <<pc, loc>>

(***************************************************************************)
(* Modify tables.                                                          *)
(***************************************************************************)
build_E_bar(prefer_exclusive) ==
  /\ Returns("build_E_bar", [prefer_exclusive |-> prefer_exclusive], Ok)
  /\ E_bar' = E_bar_of(V, prefer_exclusive)
  /\ UNCHANGED <<V, U, F, PSI, Xi, Gamma, PHI, regions>>

\* np.sum(None, 1) raises
build_mr_Xi ==
  /\ Returns("build_mr_Xi", NoArgs,
             IF IsNone(E_bar) THEN Raise("TypeError") ELSE Ok)
  /\ Xi' = IF IsNone(E_bar) THEN Xi ELSE Xi_of(V, E_bar, regions)
  /\ UNCHANGED <<V, U, F, PSI, E_bar, Gamma, PHI, regions>>

\* self.V_bar() falls back to the diagonal, then None.sum raises
build_mr_Gamma ==
  LET out == IF IsNone(E_bar)
             THEN (IF Raised(V_bar_of(V, E_bar)) THEN V_bar_of(V, E_bar)
                   ELSE Raise("AttributeError"))
             ELSE Ok
  IN  /\ Returns("build_mr_Gamma", NoArgs, out)
      /\ Gamma' = IF Raised(out) THEN Gamma ELSE Gamma_of(V, E_bar, regions)
      /\ UNCHANGED <<V, U, F, PSI, E_bar, Xi, PHI, regions>>

\* X with the rows in RP and the columns in RI set to zero
zeroed(X, RP, RI) ==
  Mk(X.nr, X.nc,
     LAMBDA i, j : IF i \in RP \/ j \in RI THEN RZero ELSE At(X, i, j))

\* remove_products_industries(RPV, RIV), with Y and TL None.  With F None
\* the first industry raises at self.F[:, x] = 0, after U and V lost its
\* column.
remove_products_industries(RPV, RIV) ==
  LET first == CHOOSE x \in RIV : \A y \in RIV : x <= y
      RI == IF IsNone(F) /\ RIV # {} THEN {first} ELSE RIV
  IN  /\ Returns("remove_products_industries", [RPV |-> RPV, RIV |-> RIV],
                 IF IsNone(F) /\ RIV # {} THEN Raise("TypeError") ELSE Ok)
      /\ U' = zeroed(U, RPV, RI)
      /\ V' = zeroed(V, RPV, RI)
      /\ F' = IF IsNone(F) THEN F ELSE zeroed(F, {}, RI)
      /\ UNCHANGED <<PSI, E_bar, Xi, Gamma, PHI, regions>>

\* add_ones_to_diagonal: a V that is not square returns an error string
add_ones_to_diagonal ==
  /\ Returns("add_ones_to_diagonal", NoArgs,
             IF V.nr # V.nc THEN [ok |-> FALSE] ELSE Ok)
  /\ V' = IF V.nr # V.nc THEN V
          ELSE Mk(V.nr, V.nc,
                  LAMBDA i, j : IF i = j /\ At(V, i, j) = RZero THEN ROne
                                ELSE At(V, i, j))
  /\ UNCHANGED <<U, F, PSI, E_bar, Xi, Gamma, PHI, regions>>

clear_non_diag_supply ==
  LET gone == {m \in 1..V.nc : V.nr = V.nc /\ At(V, m, m) = RZero}
  IN  /\ Returns("clear_non_diag_supply", NoArgs,
                 IF V.nr # V.nc THEN Raise("ValueError") ELSE Ok)
      /\ V' = zeroed(V, {}, gone)
      /\ U' = zeroed(U, {}, gone)
      /\ UNCHANGED <<F, PSI, E_bar, Xi, Gamma, PHI, regions>>

\* a variant of assign_V that rebuilds E_bar for the new table
assign_V_rebuilding(W) ==
  /\ W.nr = V.nr /\ W.nc = V.nc /\ W # V
  /\ Returns("assign_V", NoArgs, Ok)
  /\ V' = W
  /\ E_bar' = E_bar_of(W, TRUE)
  /\ UNCHANGED <<U, F, PSI, Xi, Gamma, PHI, regions>>

\* the owner assigns a new supply table of the same shape: sut.V = W
assign_V(W) ==
  /\ W.nr = V.nr /\ W.nc = V.nc /\ W # V
  /\ Returns("assign_V", NoArgs, Ok)
  /\ V' = W
  /\ UNCHANGED <<U, F, PSI, E_bar, Xi, Gamma, PHI, regions>>

(***************************************************************************)
(* The constructs.                                                         *)
(***************************************************************************)
\* a variant of Construct that consumes the use table
Construct_consuming(op, args, out) ==
  /\ Returns(op, args, out)
  /\ U' = Zeros(U.nr, U.nc)
  /\ UNCHANGED <<V, F, PSI, E_bar, Xi, Gamma, PHI, regions>>

Construct(op, args, out) ==
  /\ Returns(op, args, out)
  /\ UNCHANGED <<V, U, F, PSI, E_bar, Xi, Gamma, PHI, regions>>

KS(keep_size) == [keep_size |-> keep_size]
KSR(keep_size, return_unnormalized_flows) ==
  [keep_size |-> keep_size,
   return_unnormalized_flows |-> return_unnormalized_flows]

itc(keep_size) ==
  Construct("itc", KS(keep_size), itc_of(V, U, F, keep_size))

Build_ITC_A_matrix_cxc ==
  Construct("Build_ITC_A_matrix_cxc", NoArgs, Build_ITC_A_matrix_cxc_of(V, U))

ctc(keep_size) ==
  Construct("ctc", KS(keep_size), ctc_of(V, U, F, keep_size))

btc(keep_size) ==
  Construct("btc", KS(keep_size), btc_of(V, U, F, E_bar, keep_size))

lsc(keep_size, return_unnormalized_flows) ==
  Construct("lsc", KSR(keep_size, return_unnormalized_flows),
            lsc_of(V, U, F, E_bar, keep_size, return_unnormalized_flows))

psc_agg(keep_size, return_unnormalized_flows) ==
  Construct("psc_agg", KSR(keep_size, return_unnormalized_flows),
            psc_agg_of(V, U, F, E_bar, Xi, keep_size,
                       return_unnormalized_flows))

\* a variant of pc_agg that calls __pa_coeff every time
pc_agg_recomputing(keep_size) ==
  LET Ph == pa_coeff_of(V, PSI)
  IN  /\ Returns("pc_agg", KS(keep_size),
                 IF Raised(Ph) THEN Ph ELSE pc_agg_of(V, U, F, Ph, keep_size))
      /\ PHI' = IF Raised(Ph) THEN PHI ELSE Ph
      /\ UNCHANGED <<V, U, F, PSI, E_bar, Xi, Gamma, regions>>

\* pc_agg: __pa_coeff assigns self.PHI when it is None
pc_agg(keep_size) ==
  LET Ph == IF IsNone(PHI) THEN pa_coeff_of(V, PSI) ELSE PHI
  IN  /\ Returns("pc_agg", KS(keep_size),
                 IF Raised(Ph) THEN Ph ELSE pc_agg_of(V, U, F, Ph, keep_size))
      /\ PHI' = IF Raised(Ph) THEN PHI ELSE Ph
      /\ UNCHANGED <<V, U, F, PSI, E_bar, Xi, Gamma, regions>>

AAC(nmax, res_tol, keep_size) ==
  [nmax |-> nmax, res_tol |-> res_tol, keep_size |-> keep_size]

\* aac_agg up to the loop of __alternate_tech
aac_agg(nmax, res_tol, keep_size) ==
  LET l == alternate_tech_start(V, E_bar, Gamma, nmax, res_tol)
  IN  /\ pc = "idle"
      /\ calls' = calls + 1
      /\ IF Raised(l)
         THEN /\ ret' = Call("aac_agg", AAC(nmax, res_tol, keep_size), l)
              /\ UNCHANGED <<pc, loc>>
         ELSE /\ pc' = "loop"
              /\ loc' = l @@ [keep_size |-> keep_size]
              /\ ret' = Call("aac_agg", AAC(nmax, res_tol, keep_size),
                             [running |-> TRUE])
      /\ UNCHANGED <<V, U, F, PSI, E_bar, Xi, Gamma, PHI, regions>>

\* one pass of the loop
aac_agg_loop ==
  /\ pc = "loop"
  /\ loop_cond(loc)
  /\ loc' = loop_body(loc, Gamma)
  /\ UNCHANGED <<V, U, F, PSI, E_bar, Xi, Gamma, PHI, regions, pc, ret,
                 calls>>

\* the loop is left: __alternate_tech returns and aac_agg goes on to return
\* or raise.  solver holds what __alternate_tech printed and returned.
aac_agg_return ==
  /\ pc = "loop"
  /\ ~loop_cond(loc)
  /\ pc' = "idle"
  /\ loc' = None
  /\ ret' = [ret EXCEPT
               !.out = aac_agg_finish(V, U, F, E_bar, loc, loc.keep_size)]
            @@ [solver |->
                  [n |-> loc.n, printed |-> loc.printed,
                   theSum |-> loc.theSum,
                   A_gamma |-> apply_to_requirements(U, V, E_bar, loc.theSum)]]
  /\ UNCHANGED <<V, U, F, PSI, E_bar, Xi, Gamma, PHI, regions, calls>>

(***************************************************************************)
(* Inputs.                                                                 *)
(***************************************************************************)
\* every nr x nc table with entries in lo..hi
Tables(nr, nc, lo, hi) ==
  {Mk(nr, nc, LAMBDA i, j : R(f[<<i, j>>])) :
     f \in [(1..nr) \X (1..nc) -> lo..hi]}

\* the use tables in which the products in S are used, one unit each, by the
\* industries from k on (k in K), and no other product is used
Uses(nr, nc, K) ==
  {Mk(nr, nc, LAMBDA i, j : IF i \in S /\ j >= k THEN ROne ELSE RZero) :
     S \in SUBSET (1..nr), k \in K}

\* the scenario of the documentation
V_doc == IntMat(<<<<10, 2>>, <<0, 8>>>>)
U_doc == IntMat(<<<<1, 1>>, <<2, 3>>>>)
F_doc == IntMat(<<<<5, 1>>>>)

\* one stressor: one unit for each industry but the last, which emits two
F_for(v) == Mk(1, v.nc, LAMBDA i, j : IF j = v.nc THEN R(2) ELSE ROne)
\* one property, equal for all products
PSI_for(v) == Mk(v.nr, 1, LAMBDA i, j : ROne)
\* the two products displace each other
Xi_swap == IntMat(<<<<0, 1>>, <<1, 0>>>>)

\* a table whose first industry has no product of its own
V_alt == IntMat(<<<<0, 2>>, <<1, 1>>>>)
U_alt == IntMat(<<<<1, 0>>, <<1, 1>>>>)

(***************************************************************************)
(* Spec: the life of one object.  It is constructed from its tables alone  *)
(* (the derived matrices default to None), and its owner then builds,      *)
(* edits and runs constructs in any order.                                 *)
(***************************************************************************)
Objects ==
  {<<V_doc, U_doc, F_doc, PSI_for(V_doc)>>, <<V_alt, U_alt, None, None>>}
Supplies == {V_doc, V_alt}
Removals == {<<{1}, {}>>, <<{}, {2}>>, <<{2}, {1}>>}

Init ==
  \E o \in Objects :
    Constructed(o[1], o[2], o[3], o[4], None, None, None, None, 1)

Next ==
  \/ \E pe \in BOOLEAN : calls < MaxCalls /\ build_E_bar(pe)
  \/ calls < MaxCalls /\ build_mr_Xi
  \/ calls < MaxCalls /\ build_mr_Gamma
  \/ \E W \in Supplies : calls < MaxCalls /\ assign_V(W)
  \/ \E rm \in Removals :
       calls < MaxCalls /\ remove_products_industries(rm[1], rm[2])
  \/ calls < MaxCalls /\ add_ones_to_diagonal
  \/ calls < MaxCalls /\ clear_non_diag_supply
  \/ \E ks \in BOOLEAN : calls < MaxCalls /\ itc(ks)
  \/ \E ks \in BOOLEAN : calls < MaxCalls /\ ctc(ks)
  \/ \E ks \in BOOLEAN : calls < MaxCalls /\ btc(ks)
  \/ \E ks \in BOOLEAN : calls < MaxCalls /\ pc_agg(ks)
  \/ \E ks \in BOOLEAN, ruf \in BOOLEAN : calls < MaxCalls /\ lsc(ks, ruf)
  \/ \E ks \in BOOLEAN, ruf \in BOOLEAN :
       calls < MaxCalls /\ psc_agg(ks, ruf)
  \/ \E nmax \in 0..MaxN, ks \in BOOLEAN :
       calls < MaxCalls /\ aac_agg(nmax, 0, ks)
  \/ aac_agg_loop
  \/ aac_agg_return

Spec == Init /\ [][Next]_vars

\* the last call was construct op and it returned its tuple
Returned(op) ==
  ret.op = op /\ ~Raised(ret.out) /\ "running" \notin DOMAIN ret.out

Constructs == {"itc", "ctc", "btc", "pc_agg", "psc_agg", "lsc", "aac_agg"}
\* this step starts the call op, and this step is a step of a construct
Calling(op) == calls' = calls + 1 /\ ret'.op = op
ConstructStep == pc = "loop" \/ \E op \in Constructs : Calling(op)

\* C5: every step of every construct (itc, ctc, btc, pc_agg, psc_agg, lsc,
\* aac_agg), whether the call returns or raises, leaves V, U and F as they
\* were.
C5_ConstructsLeaveTablesAlone ==
  [][ConstructStep => (V' = V /\ U' = U /\ F' = F)]_vars

\* C5's case: a construct has raised on tables that were edited before
C5_Witness ==
  /\ ret.op \in Constructs /\ Raised(ret.out)
  /\ calls > 1
  /\ \A o \in Objects : V # o[1] /\ U # o[2]

\* C6: E_bar, Xi and Gamma change only in a build_E_bar, build_mr_Xi and
\* build_mr_Gamma step respectively; no construct step and no edit of V
\* changes them, and btc and lsc compute with the E_bar that was stored
\* before the call, whatever V has become.
C6_DerivedChangeOnlyWhenBuilt ==
  [][/\ E_bar' # E_bar => Calling("build_E_bar")
     /\ Xi' # Xi => Calling("build_mr_Xi")
     /\ Gamma' # Gamma => Calling("build_mr_Gamma")
     /\ (Calling("btc") /\ ~IsNone(E_bar)) =>
          ret'.out = btc_of(V', U', F', E_bar, ret'.args.keep_size)
     /\ (Calling("lsc") /\ ~IsNone(E_bar)) =>
          ret'.out = lsc_of(V', U', F', E_bar, ret'.args.keep_size,
                            ret'.args.return_unnormalized_flows)]_vars

\* C6's case: E_bar was built, V was then edited, and btc has returned what
\* the old E_bar gives, which is not what a rebuilt E_bar would give
C6_Witness ==
  /\ Returned("btc")
  /\ ~IsNone(E_bar)
  /\ E_bar \notin {E_bar_of(V, pe) : pe \in BOOLEAN}
  /\ ret.out = btc_of(V, U, F, E_bar, ret.args.keep_size)
  /\ \A pe \in BOOLEAN :
       ret.out # btc_of(V, U, F, E_bar_of(V, pe), ret.args.keep_size)

\* C7 as stated: a construct called while a derived matrix it needs is
\* None computes that matrix from V and stores it on the object (looked at
\* for the calls that do not raise).
C7_AbsentMatrixStoredOnFirstUse ==
  [][~Raised(ret'.out) =>
       /\ (IsNone(E_bar) /\ \E op \in {"btc", "psc_agg", "lsc", "aac_agg"} :
                              Calling(op)) => ~IsNone(E_bar')
       /\ (IsNone(Xi) /\ Calling("psc_agg")) => ~IsNone(Xi')
       /\ (IsNone(Gamma) /\ Calling("aac_agg")) => ~IsNone(Gamma')
       /\ (IsNone(PHI) /\ Calling("pc_agg")) => ~IsNone(PHI')]_vars

\* C7 as the code has it: only PHI is computed on first use.  pc_agg called
\* with PHI None stores the PHI of __pa_coeff (unless that raises) and
\* returns what it gives; called with a stored PHI it keeps and uses it; no
\* other construct step changes PHI.  A construct called with E_bar, Xi or
\* Gamma None leaves it None: lsc, psc_agg and aac_agg raise, and btc
\* raises or computes with an identity it does not store.
C7_OnlyPHIComputedOnFirstUse ==
  [][ConstructStep =>
       /\ IsNone(E_bar) => IsNone(E_bar')
       /\ IsNone(Xi) => IsNone(Xi')
       /\ IsNone(Gamma) => IsNone(Gamma')
       /\ IF Calling("pc_agg")
          THEN LET Ph == IF IsNone(PHI) THEN pa_coeff_of(V, PSI) ELSE PHI
               IN  IF Raised(Ph)
                   THEN PHI' = PHI /\ ret'.out = Ph
                   ELSE /\ PHI' = Ph
                        /\ ret'.out =
                             pc_agg_of(V, U, F, Ph, ret'.args.keep_size)
          ELSE PHI' = PHI
       /\ (IsNone(E_bar) /\ Calling("lsc")) => Raised(ret'.out)
       /\ ((IsNone(E_bar) \/ IsNone(Xi)) /\ Calling("psc_agg")) =>
            Raised(ret'.out)
       /\ ((IsNone(E_bar) \/ IsNone(Gamma)) /\ Calling("aac_agg")) =>
            Raised(ret'.out)
       /\ (IsNone(E_bar) /\ Calling("btc")) =>
            \/ Raised(ret'.out)
            \/ ret'.out = btc_of(V, U, F, Eye(V.nr), ret'.args.keep_size)]_vars

\* C7's case: pc_agg has returned with a PHI stored by an earlier call, from
\* a V that has been edited since
C7_Witness ==
  /\ Returned("pc_agg")
  /\ ~IsNone(PHI)
  /\ PHI # pa_coeff_of(V, PSI)
  /\ ret.out = pc_agg_of(V, U, F, PHI, ret.args.keep_size)

(***************************************************************************)
(* SpecE: build_E_bar on every small supply table, square or not.          *)
(***************************************************************************)
ShapesE == {<<2, 2>>, <<2, 3>>, <<3, 2>>}

InitE ==
  \E sh \in ShapesE :
    \E v \in Tables(sh[1], sh[2], -1, MaxVal) :
      Constructed(v, Zeros(sh[1], sh[2]), None, None, None, None, None, None, 1)

NextE == \E pe \in BOOLEAN : calls < MaxBuilds /\ build_E_bar(pe)

SpecE == InitE /\ [][NextE]_vars

\* the number of ones in column i of E, and whether E holds only 0 and 1
OnesInColumn(E, i) == Cardinality({p \in 1..E.nr : At(E, p, i) = ROne})
ZeroOne(E) ==
  \A p \in 1..E.nr, i \in 1..E.nc : At(E, p, i) \in {RZero, ROne}
NonzeroColumn(X, i) == \E p \in 1..X.nr : At(X, p, i) # RZero
Built == ret.op = "build_E_bar" /\ ~Raised(ret.out)

\* C1: after build_E_bar, with either prefer_exclusive and V square or not,
\* E_bar has the shape of V and holds only 0 and 1; a column of V with a
\* nonzero entry has exactly one 1 in E_bar and an all-zero column has none.
C1_OnePrimaryProductPerIndustry ==
  Built =>
    /\ E_bar.nr = V.nr /\ E_bar.nc = V.nc
    /\ ZeroOne(E_bar)
    /\ \A i \in 1..V.nc :
         OnesInColumn(E_bar, i) = IF NonzeroColumn(V, i) THEN 1 ELSE 0

\* C1's case: a non-square V with an empty industry and an industry with
\* two products, one of them negative, built without prefer_exclusive
C1_Witness ==
  /\ Built /\ ~ret.args.prefer_exclusive
  /\ V.nr # V.nc
  /\ \E i \in 1..V.nc : ~NonzeroColumn(V, i)
  /\ \E i \in 1..V.nc :
       \E p, r \in 1..V.nr :
         p # r /\ RLt(At(V, p, i), RZero) /\ RLt(RZero, At(V, r, i))

\* the diagonal of a square V has no zero
FullDiagonal(X) == X.nr = X.nc /\ \A i \in 1..X.nc : At(X, i, i) # RZero
OffDiagonalZeroed(X) ==
  Mk(X.nr, X.nc, LAMBDA p, i : IF p = i THEN At(X, p, i) ELSE RZero)

\* C3: for a square V whose diagonal has no zero, build_E_bar (either
\* prefer_exclusive, any off-diagonal values) leaves E_bar the identity, and
\* V_bar() is then V with its off-diagonal entries set to zero.
C3_FullDiagonalGivesIdentity ==
  (Built /\ FullDiagonal(V)) =>
    /\ E_bar = Eye(V.nr)
    /\ V_bar_of(V, E_bar) = OffDiagonalZeroed(V)

\* C3's case: an off-diagonal entry larger than the diagonal entry of its
\* column, alone in its row, built with prefer_exclusive
C3_Witness ==
  /\ Built /\ ret.args.prefer_exclusive /\ FullDiagonal(V)
  /\ \E p, i \in 1..V.nr :
       /\ p # i
       /\ RLt(RAbs(At(V, i, i)), RAbs(At(V, p, i)))
       /\ E_bar = Eye(V.nr)

(***************************************************************************)
(* SpecC: one construct call on an object constructed with its derived     *)
(* matrices: E_bar, Xi and Gamma as the build methods derive them from V,  *)
(* or E_bar and Xi the caller's own.                                       *)
(***************************************************************************)
InputsC ==
  {<<v, u>> : v \in Tables(2, 2, 0, MaxVal), u \in Uses(2, 2, {1, 2})}
    \cup {<<v, u>> : v \in Tables(3, 2, 0, 1), u \in Uses(3, 2, {2})}
    \cup {<<V_doc, U_doc>>}

InitC ==
  \E vu \in InputsC :
    \E own \in BOOLEAN :
      LET v == vu[1]
          built == E_bar_of(v, TRUE)
          eb == IF own /\ v.nr = v.nc THEN Eye(v.nr) ELSE built
          xi == IF own /\ v.nr = v.nc THEN Xi_swap ELSE Xi_of(v, built, 1)
      IN  Constructed(v, vu[2], IF v = V_doc THEN F_doc ELSE F_for(v),
                      PSI_for(v), eb, xi, Gamma_of(v, eb, 1), None, 1)

NextC ==
  \/ \E ks \in BOOLEAN : calls = 0 /\ itc(ks)
  \/ \E ks \in BOOLEAN : calls = 0 /\ ctc(ks)
  \/ \E ks \in BOOLEAN : calls = 0 /\ btc(ks)
  \/ \E ks \in BOOLEAN : calls = 0 /\ pc_agg(ks)
  \/ \E ks \in BOOLEAN, ruf \in BOOLEAN : calls = 0 /\ lsc(ks, ruf)
  \/ \E ks \in BOOLEAN, ruf \in BOOLEAN : calls = 0 /\ psc_agg(ks, ruf)
  \/ \E ks \in BOOLEAN : calls = 0 /\ aac_agg(MaxN, 0, ks)
  \/ aac_agg_loop
  \/ aac_agg_return

SpecC == InitC /\ [][NextC]_vars

\* C2: btc() with E_bar present returns Z = (U - V_tild) . E_bar^T with
\* V_tild = V * (1 - E_bar), and (sizes kept) A[r, c] = Z[r, c] / q[c] for
\* every row r and every column c with q[c] # 0, q the row sums of
\* V_bar = V * E_bar.
C2_BtcDividesFlowsByPrimaryOutput ==
  (Returned("btc") /\ ret.args.keep_size /\ ~IsNone(E_bar)) =>
    LET V_tild == Had(V, Minus(Mk(V.nr, V.nc, LAMBDA p, i : ROne), E_bar))
        Z == Dot(Minus(U, V_tild), T(E_bar))
        q == RowSums(Had(V, E_bar))
    IN  /\ ret.out.Z = Z
        /\ \A r \in 1..V.nr, c \in 1..V.nr :
             q.v[c] # RZero =>
               At(ret.out.A, r, c) = RMul(At(Z, r, c), RInv(q.v[c]))

\* C2's documented scenario: build_E_bar gives the identity, and btc returns
\* the Z and A of the documentation
C2_Witness ==
  /\ Returned("btc") /\ ret.args.keep_size
  /\ V = V_doc /\ U = U_doc /\ F = F_doc
  /\ E_bar = E_bar_of(V_doc, TRUE) /\ E_bar = E_bar_of(V_doc, FALSE)
  /\ V_tild_of(V, E_bar) = IntMat(<<<<0, 2>>, <<0, 0>>>>)
  /\ V_bar_of(V, E_bar) = IntMat(<<<<10, 0>>, <<0, 8>>>>)
  /\ ret.out.Z = IntMat(<<<<1, -1>>, <<2, 3>>>>)
  /\ ret.out.A = RatMat(<<<<Rat(1, 10), Rat(-1, 8)>>,
                          <<Rat(2, 10), Rat(3, 8)>>>>)

\* where C2 holds: a row of Z is divided when the product is kept by
\* matrix_norm's row filter, which sums the row of Z before taking abs
C2_HoldsOnKeptRows ==
  (Returned("btc") /\ ret.args.keep_size /\ ~IsNone(E_bar)) =>
    LET Z == ret.out.Z
        q == RowSums(Had(V, E_bar))
    IN  \A r \in 1..V.nr, c \in 1..V.nr :
          (q.v[c] # RZero /\ (q.v[r] # RZero \/ RowSums(Z).v[r] # RZero)) =>
            At(ret.out.A, r, c) = RMul(At(Z, r, c), RInv(q.v[c]))

\* the constructs that normalise through matrix_norm
Normalising == {"btc", "psc_agg", "lsc", "itc", "pc_agg", "aac_agg"}
ZeroRow(X, r) == \A i \in 1..X.nc : At(X, r, i) = RZero
\* product r is neither supplied nor used
Absent(r) == ZeroRow(V, r) /\ ZeroRow(U, r)
\* the filter excludes product r, and A has lost a row when sizes are not kept
Dropped(r) ==
  /\ ~ret.out.nn_in.v[r]
  /\ ~ret.args.keep_size => ret.out.A.nr < V.nr

C4_BuiltMeetsConditions ==
  (E_bar = E_bar_of(V, TRUE) /\ Xi = Xi_of(V, E_bar, 1)) =>
    \A r \in 1..V.nr :
      ZeroRow(V, r) =>
        /\ ZeroRow(E_bar, r)
        /\ \A p \in 1..Xi.nc : p # r => At(Xi, r, p) = RZero

(***************************************************************************)
(* SpecS: aac_agg on an object with E_bar built and with Gamma built or    *)
(* the caller's own, for every nmax and res_tol of a small range.          *)
(***************************************************************************)
InitS ==
  \E v \in Tables(2, 2, 0, 1) :
    \E gm \in Tables(2, 2, -1, 1) \cup {Gamma_of(v, E_bar_of(v, TRUE), 1)} :
      Constructed(v, U_doc, F_for(v), PSI_for(v), E_bar_of(v, TRUE), None,
                  gm, None, 1)

NextS ==
  \/ \E nmax \in 0..MaxN, res_tol \in -1..MaxTol :
       calls = 0 /\ aac_agg(nmax, res_tol, TRUE)
  \/ aac_agg_loop
  \/ aac_agg_return

SpecS == InitS /\ [][NextS]_vars

RECURSIVE MatPow(_, _)
MatPow(A, k) == IF k = 0 THEN Eye(A.nr) ELSE Dot(MatPow(A, k - 1), A)

\* M = V_tild . diag(1 / column sums of V_bar), and -Gamma . M
M_of(v, Eb) ==
  LET c == ColSums(Had(v, Eb))
  IN  Mk(v.nr, v.nc,
         LAMBDA p, i :
           IF c.v[i] = RZero THEN RZero
           ELSE RMul(RMul(At(v, p, i), RSub(ROne, At(Eb, p, i))),
                     RInv(c.v[i])))
MinusGammaM == Scale(RNeg(ROne), Dot(Gamma, M_of(V, E_bar)))

\* C8 as stated: the loop stops at the first iteration at which the residual
\* (the sum of the entries of the current power of -Gamma.M) is at most
\* res_tol, negative residuals included, or at which the iteration count
\* has passed nmax.
C8_StopsWhenResidualAtMostTol ==
  [][pc = "loop" =>
       /\ loc.res = SumAll(MatPow(MinusGammaM, loc.n - 1))
       /\ pc' = "idle" <=>
            (RLe(loc.res, R(loc.res_tol)) \/ loc.n > loc.nmax)]_vars

\* C8 as the code has it: the loop stops at the first iteration at which the
\* residual lies between 0 and res_tol, or at which nmax passes have been
\* made; a negative residual never stops it.
C8_StopsWhenResidualBetweenZeroAndTol ==
  [][pc = "loop" =>
       /\ loc.res = SumAll(MatPow(MinusGammaM, loc.n - 1))
       /\ pc' = "idle" <=>
            \/ RLe(RZero, loc.res) /\ RLe(loc.res, R(loc.res_tol))
            \/ loc.n > loc.nmax]_vars

\* C8's case: a pass has left a negative residual, below res_tol, and the
\* loop has gone on to another pass
C8_Witness ==
  /\ pc = "loop" /\ loc.n > 2
  /\ Len(loc.printed) > 1
  /\ RLt(loc.printed[Len(loc.printed) - 1], RZero)
  /\ RLe(loc.printed[Len(loc.printed) - 1], R(loc.res_tol))

\* the sum of the powers 0..k of -Gamma.M, times Gamma
RECURSIVE SeriesTo(_)
SeriesTo(k) ==
  IF k = 0 THEN Gamma
  ELSE Plus(SeriesTo(k - 1), Dot(MatPow(MinusGammaM, k), Gamma))

\* C9: for every nmax >= 0 the loop makes at most nmax passes, theSum being
\* the sum of the powers 0..n-1 (n-1 <= nmax) of -Gamma.M, times Gamma;
\* every step of a call inside the loop is one more pass or the return of
\* aac_agg's tuple, never an error, whether or not the residual has come
\* below res_tol.
C9_AtMostNmaxPassesThenReturns ==
  /\ [](pc = "loop" =>
          /\ loc.n >= 1 /\ loc.n - 1 <= loc.nmax
          /\ Len(loc.printed) = loc.n - 1
          /\ loc.theSum = SeriesTo(loc.n - 1))
  /\ []((ret.op = "aac_agg" /\ pc = "idle") =>
          /\ Returned("aac_agg")
          /\ ret.solver.n - 1 <= ret.args.nmax
          /\ ret.solver.theSum = SeriesTo(ret.solver.n - 1))
  /\ [][pc = "loop" =>
            \/ pc' = "loop" /\ loc'.n = loc.n + 1 /\ loc'.nmax = loc.nmax
            \/ pc' = "idle" /\ ret'.op = "aac_agg" /\ ~Raised(ret'.out)]_vars

\* C9's case: the residual grows, the loop has made its nmax passes, and
\* aac_agg has returned with the residual above res_tol
C9_Witness ==
  /\ Returned("aac_agg")
  /\ ret.args.nmax = MaxN /\ ret.solver.n - 1 = MaxN
  /\ LET res == ret.solver.printed
     IN  /\ RLt(R(ret.args.res_tol), res[MaxN])
         /\ RLt(RAbs(res[1]), RAbs(res[MaxN]))

\* the A_gamma that apply_to_requirements(U) makes of a series sum X: U with
\* column i divided by the output of industry i (by its primary output, if
\* the industry has more than one product, or none), times X
Requirements(X) ==
  LET products(i) == Cardinality({p \in 1..V.nr : At(V, p, i) # RZero})
      out(i) == IF products(i) = 1 THEN ColSums(V).v[i]
                ELSE ColSums(Had(V, E_bar)).v[i]
      B == Mk(U.nr, U.nc,
              LAMBDA p, i : IF out(i) = RZero THEN RZero
                            ELSE RMul(At(U, p, i), RInv(out(i))))
  IN  Dot(B, X)
NoFeedback == Dot(Gamma, M_of(V, E_bar)) = Zeros(Gamma.nr, V.nc)

\* C10 as stated: when Gamma.M = 0 the A_gamma that __alternate_tech returns
\* equals Gamma, for every nmax.
C10_NoFeedbackGivesGamma ==
  (Returned("aac_agg") /\ NoFeedback) => ret.solver.A_gamma = Gamma

\* C10 as the code has it: when Gamma.M = 0 the series sum equals Gamma for
\* every nmax and res_tol, and the A_gamma returned is the use table,
\* normalised by industry output, times Gamma.
C10_NoFeedbackSumIsGamma ==
  (Returned("aac_agg") /\ NoFeedback) =>
    /\ ret.solver.theSum = Gamma
    /\ ret.solver.A_gamma = Requirements(Gamma)

\* C10's case: Gamma and M are not zero but Gamma.M is, the loop has made
\* two passes, and the A_gamma returned is not Gamma
C10_Witness ==
  /\ Returned("aac_agg") /\ NoFeedback
  /\ Gamma # Zeros(2, 2) /\ M_of(V, E_bar) # Zeros(2, 2)
  /\ ret.solver.n = 3
  /\ ret.solver.theSum = Gamma
  /\ ret.solver.A_gamma # Gamma

(***************************************************************************)
(* SpecT: one call of itc or ctc on an object whose supply table may have  *)
(* negative entries, may be singular and may not be square.                *)
(***************************************************************************)
ShapesT == {<<2, 2>>, <<2, 3>>, <<3, 2>>}

InitT ==
  \E sh \in ShapesT :
    \E v \in (IF sh[1] = sh[2] THEN Tables(sh[1], sh[2], -1, MaxVal)
              ELSE Tables(sh[1], sh[2], 0, 1)),
       u \in Uses(sh[1], sh[2], {1, sh[2]}) :
      \E f \in {None, F_for(v)} :
        Constructed(v, u, f, PSI_for(v), None, None, None, None, 1)

NextT ==
  \/ \E ks \in BOOLEAN : calls = 0 /\ itc(ks)
  \/ \E ks \in BOOLEAN : calls = 0 /\ ctc(ks)
  \/ calls = 0 /\ Build_ITC_A_matrix_cxc

SpecT == InitT /\ [][NextT]_vars

Square(X) == X.nr = X.nc
Invertible(X) == Square(X) /\ Det(X) # RZero

\* C11: on every square invertible V, with any U, ctc() returns, and the A
\* and Z it returns satisfy A.V = U (A is U times the inverse of V) and
\* Z = A.diag(q), q being the row sums of V.
C11_CtcInvertsSupply ==
  /\ (ret.op = "ctc" /\ Invertible(V)) => Returned("ctc")
  /\ Returned("ctc") =>
       /\ Invertible(V)
       /\ Dot(ret.out.A, V) = U
       /\ ret.out.Z.nr = U.nr /\ ret.out.Z.nc = V.nr
       /\ \A r \in 1..U.nr, c \in 1..V.nr :
            At(ret.out.Z, r, c) = RMul(At(ret.out.A, r, c), q_V(V).v[c])

\* C11's case: ctc has returned on a supply table with a negative entry and
\* a product whose total output is zero, and the coefficients are not zero
C11_Witness ==
  /\ Returned("ctc")
  /\ \E i \in 1..V.nr, j \in 1..V.nc : RLt(At(V, i, j), RZero)
  /\ \E c \in 1..V.nr : q_V(V).v[c] = RZero
  /\ ret.out.A # Zeros(U.nr, V.nr)
  /\ ret.out.A # U

Fields == <<V, U, F, PSI, E_bar, Xi, Gamma, PHI, regions>>

\* C12: a call of ctc() on a square V that has no inverse raises the
\* singular-matrix error of the inversion, returns no tuple, and leaves
\* every attribute of the object as it was.
C12_SingularSupplyRaises ==
  [][(Calling("ctc") /\ Square(V) /\ Det(V) = RZero)
       => (ret'.out = Raise("LinAlgError") /\ Fields' = Fields)]_vars

\* C12's case: ctc has raised on a square singular table that is not zero
C12_Witness ==
  /\ ret.op = "ctc" /\ ret.out = Raise("LinAlgError")
  /\ Square(V) /\ Det(V) = RZero
  /\ \A i \in 1..V.nr, j \in 1..V.nc : At(V, i, j) # RZero
  /\ ~IsNone(F)

\* C13 as stated: itc() on a V that is not square fails.
C13_ItcRejectsNonSquareSupply ==
  (ret.op = "itc" /\ ~Square(V)) => Raised(ret.out)

\* C13: itc() checks no shape.  On a V that is not square it raises nothing
\* and returns its result, whose Z is product by product; of the two
\* constructs only ctc() fails on such a V, at the inversion.
C13_ItcAcceptsNonSquareSupply ==
  /\ (ret.op = "itc" /\ ~Square(V)) =>
       /\ Returned("itc")
       /\ ret.out.Z.nr = V.nr /\ ret.out.Z.nc = V.nr
       /\ ret.out.Z = Dot(Dot(U, diaginv(g_V(V))), T(V))
  /\ (ret.op = "ctc" /\ ~Square(V)) => ret.out = Raise("LinAlgError")

\* C13's case: itc has returned nonzero flows on a table with more
\* industries than products
C13_Witness ==
  /\ Returned("itc")
  /\ V.nr < V.nc
  /\ ret.out.Z # Zeros(V.nr, V.nr)
  /\ ret.out.A # Zeros(V.nr, V.nr)

(***************************************************************************)
(* Degenerate tables under SpecC: products that are never produced and     *)
(* industries without output.                                              *)
(***************************************************************************)
Degenerating == {"itc", "btc", "psc_agg", "lsc"}

\* the production volume that the construct op hands to matrix_norm
NormVolume(op) ==
  IF op = "itc" THEN V
  ELSE IF op = "lsc" THEN Dot(E_bar, ddiag(g_V(V)))
  ELSE V_bar_of(V, E_bar)

Unproduced(op, p) == RowSums(NormVolume(op)).v[p] = RZero
NoOutput(j) == g_V(V).v[j] = RZero
Degenerate(op) ==
  \/ \E p \in 1..V.nr : Unproduced(op, p)
  \/ \E j \in 1..V.nc : NoOutput(j)
ZeroCol(X, c) == \A i \in 1..X.nr : At(X, i, c) = RZero
NKept(nn) == Len(Kept(nn))

\* what the call made of the unproduced product p: the filter excludes it,
\* A and S have lost its column when sizes are not kept, and have it as a
\* column of zeros when sizes are kept
ExcludedOrZero(p) ==
  /\ ~ret.out.nn_out.v[p]
  /\ ~ret.args.keep_size =>
       /\ ret.out.A.nc = NKept(ret.out.nn_out)
       /\ ret.out.S.nc = NKept(ret.out.nn_out)
  /\ ret.args.keep_size =>
       /\ ret.out.A.nc = V.nr /\ ZeroCol(ret.out.A, p)
       /\ ret.out.S.nc = V.nr /\ ZeroCol(ret.out.S, p)

\* C14 as stated: itc, btc, psc_agg and lsc, on tables with a product that
\* is never produced (zero row sum of the normalising volume) or an industry
\* without output, raise nothing, exclude that product by nn_out, drop its
\* column of A and S when sizes are not kept and return it as an all-zero
\* column of A and S when sizes are kept.
C14_DegenerateHandledAsData ==
  \A op \in Degenerating :
    (ret.op = op /\ Degenerate(op)) =>
      /\ Returned(op)
      /\ \A p \in 1..V.nr : Unproduced(op, p) => ExcludedOrZero(p)

\* what does hold of C14: no error and the filter always, the columns of A
\* and S whenever at least one product is produced
C14_HoldsWhenSomethingIsProduced ==
  \A op \in Degenerating :
    (ret.op = op /\ Degenerate(op)) =>
      /\ Returned(op)
      /\ \A p \in 1..V.nr :
           Unproduced(op, p) =>
             /\ ~ret.out.nn_out.v[p]
             /\ NKept(ret.out.nn_out) > 0 => ExcludedOrZero(p)

\* C14's case: a construct has returned, sizes kept, on tables with an
\* unproduced product and an industry without output, another product
\* being produced
C14_Witness ==
  \E op \in Degenerating :
    /\ Returned(op)
    /\ ret.args.keep_size
    /\ NKept(ret.out.nn_out) > 0
    /\ \E j \in 1..V.nc : NoOutput(j)
    /\ \E p \in 1..V.nr : Unproduced(op, p) /\ ZeroCol(ret.out.A, p)
    /\ ret.out.A # Zeros(V.nr, V.nr)

(***************************************************************************)
(* The primary product of the industries that the diagonal does not        *)
(* resolve, under SpecE.                                                   *)
(***************************************************************************)
\* industry i has its primary product from the diagonal of a square V
Seeded(i) == V.nr = V.nc /\ At(V, i, i) # RZero
\* the products that industry i alone supplies
Exclusive(i) ==
  {p \in 1..V.nr :
     /\ At(V, p, i) # RZero
     /\ \A j \in 1..V.nc : j # i => At(V, p, j) = RZero}
\* p is the one primary product of industry i
Primary(p, i) ==
  \A r \in 1..V.nr : At(E_bar, r, i) = IF r = p THEN ROne ELSE RZero
\* the supply of p by i is, in absolute value, the largest among the products P
LargestOf(P, p, i) ==
  p \in P /\ \A r \in P : RLe(RAbs(At(V, r, i)), RAbs(At(V, p, i)))

\* C15: after build_E_bar(prefer_exclusive = True), every industry that the
\* diagonal seed has not resolved and that is the sole supplier of some
\* product has for primary product one of its exclusive products, the one
\* with the largest absolute supply among them, whatever it supplies of
\* shared products; after build_E_bar(prefer_exclusive = False) the same
\* industry has the product with its overall largest absolute supply.
C15_ExclusiveProductPreferred ==
  Built =>
    \A i \in 1..V.nc :
      (~Seeded(i) /\ Exclusive(i) # {}) =>
        \E p \in 1..V.nr :
          /\ Primary(p, i)
          /\ IF ret.args.prefer_exclusive
             THEN LargestOf(Exclusive(i), p, i)
             ELSE LargestOf(1..V.nr, p, i)

\* C15's case: built with prefer_exclusive, an unseeded industry has an
\* exclusive product for primary though it supplies more of a shared one
C15_Witness ==
  /\ Built /\ ret.args.prefer_exclusive
  /\ \E i \in 1..V.nc :
       \E p, r \in 1..V.nr :
         /\ ~Seeded(i)
         /\ p \in Exclusive(i) /\ r \notin Exclusive(i)
         /\ RLt(RAbs(At(V, p, i)), RAbs(At(V, r, i)))
         /\ Primary(p, i)

\* industry i is resolved neither by the diagonal nor by the exclusive step
Unresolved(i) ==
  /\ ~Seeded(i)
  /\ ret.args.prefer_exclusive => Exclusive(i) = {}

\* C16: after build_E_bar, every industry with supply that neither the
\* diagonal seed nor the exclusive-product step has resolved has for primary
\* product the product with the largest absolute supply in its column of V,
\* and of several products with that largest supply the one with the lowest
\* index.
C16_LargestSupplyFirstOnTies ==
  Built =>
    \A i \in 1..V.nc :
      (Unresolved(i) /\ NonzeroColumn(V, i)) =>
        \E p \in 1..V.nr :
          /\ Primary(p, i)
          /\ LargestOf(1..V.nr, p, i)
          /\ \A r \in 1..(p - 1) : RLt(RAbs(At(V, r, i)), RAbs(At(V, p, i)))

\* C16's case: an unresolved industry with two products of the same
\* largest absolute supply and opposite sign, the first being primary
C16_Witness ==
  /\ Built /\ ret.args.prefer_exclusive
  /\ \E i \in 1..V.nc :
       \E p, r \in 1..V.nr :
         /\ Unresolved(i)
         /\ p < r
         /\ At(V, p, i) # RZero
         /\ At(V, r, i) = RNeg(At(V, p, i))
         /\ LargestOf(1..V.nr, p, i)
         /\ Primary(p, i)

(***************************************************************************)
(* SpecR: build_E_bar and build_mr_Xi on tables of one, two and three      *)
(* regions; the number of regions divides the numbers of products and of   *)
(* industries.                                                             *)
(***************************************************************************)
\* the supply tables with their number of regions
RegionTables ==
  {<<v, 1>> : v \in Tables(2, 2, 0, 1) \cup Tables(3, 2, 0, 1)}
    \cup {<<v, 2>> : v \in Tables(2, 2, 0, MaxVal) \cup Tables(4, 2, 0, 1)
                            \cup Tables(2, 4, -1, 1)}
    \cup {<<v, 3>> : v \in Tables(3, 3, 0, 1)}

InitR ==
  \E vr \in RegionTables :
    Constructed(vr[1], Zeros(vr[1].nr, vr[1].nc), None, None, None, None,
                None, None, vr[2])

NextR ==
  \/ \E pe \in BOOLEAN : calls < MaxBuilds /\ build_E_bar(pe)
  \/ calls < MaxBuilds /\ build_mr_Xi

SpecR == InitR /\ [][NextR]_vars

XiBuilt == ret.op = "build_mr_Xi" /\ ~Raised(ret.out)
\* products p and j are the same product in two regions (or the same)
SameType(p, j) ==
  ((p - 1) % (V.nr \div regions)) = ((j - 1) % (V.nr \div regions))
\* some region has a primary producer of the product j
PrimaryAnywhere(j) ==
  \E p \in 1..V.nr, i \in 1..V.nc : SameType(p, j) /\ At(E_bar, p, i) # RZero
\* the primary output of the product j, all regions together
WorldPrimaryOutput(j) ==
  RSum([k \in 1..(V.nr * V.nc) |->
          LET p == ((k - 1) \div V.nc) + 1
              i == ((k - 1) % V.nc) + 1
          IN  IF SameType(p, j) THEN RMul(At(V, p, i), At(E_bar, p, i))
              ELSE RZero])

NoNegativeSupply ==
  \A p \in 1..V.nr, i \in 1..V.nc : RLe(RZero, At(V, p, i))

\* C17 as stated: after build_mr_Xi, on an E_bar that build_E_bar has built,
\* in every column of Xi at most one of the local identity part and the
\* global primary-mix part has a nonzero entry, and the column sums to 1,
\* or to 0 when no region has a primary producer of the product.
C17_XiColumnsSumToOneUnlessUnproduced ==
  XiBuilt =>
    \A j \in 1..Xi.nc :
      /\ \/ ZeroCol(Xi_local_of(E_bar), j)
         \/ ZeroCol(Xi_glob_of(V, E_bar, regions), j)
      /\ ColSums(Xi).v[j] = IF PrimaryAnywhere(j) THEN ROne ELSE RZero

\* C17 as stated holds of the supply tables without a negative entry
C17_HoldsWithoutNegativeSupply ==
  (XiBuilt /\ NoNegativeSupply) =>
    \A j \in 1..Xi.nc :
      ColSums(Xi).v[j] = IF PrimaryAnywhere(j) THEN ROne ELSE RZero

\* C17: after build_mr_Xi, on an E_bar that build_E_bar has built, Xi is
\* the sum of the local identity part and of the global primary-mix part,
\* in every column at most one of the two parts has a nonzero entry, and
\* every column of Xi sums to 1 or to 0: to 0 exactly when the product has
\* no primary producer in its own region and its primary output in all
\* regions together is zero, as it is when no region has a primary producer.
C17_XiColumnsFromOnePartSumToOne ==
  XiBuilt =>
    LET local == Xi_local_of(E_bar)
        glob == Xi_glob_of(V, E_bar, regions)
    IN  /\ Xi = Plus(local, glob)
        /\ \A j \in 1..Xi.nc :
             /\ ZeroCol(local, j) \/ ZeroCol(glob, j)
             /\ ColSums(Xi).v[j] \in {RZero, ROne}
             /\ ColSums(Xi).v[j] = RZero <=>
                  /\ ZeroRow(E_bar, j)
                  /\ WorldPrimaryOutput(j) = RZero
             /\ ~PrimaryAnywhere(j) => ColSums(Xi).v[j] = RZero

\* C17's case: three regions; one product displaces itself, another has no
\* primary producer in its region and displaces the mix of two regions
C17_Witness ==
  /\ XiBuilt /\ regions = 3
  /\ \E j \in 1..Xi.nc : ~ZeroCol(Xi_local_of(E_bar), j)
  /\ \E j \in 1..Xi.nc :
       /\ ZeroCol(Xi_local_of(E_bar), j)
       /\ \E p, r \in 1..Xi.nr :
            p # r /\ At(Xi, p, j) # RZero /\ At(Xi, r, j) # RZero
       /\ ColSums(Xi).v[j] = ROne

(***************************************************************************)
(* SpecN: one call of matrix_norm, with the supply table of the object for *)
(* production volume, on flows of every shape that it accepts (product by  *)
(* product, and traceable: product-and-industry in rows, columns or both)  *)
(* and on flows of shapes that it does not accept.                         *)
(***************************************************************************)
call_matrix_norm(Z, F_con, keep_size, just_filters) ==
  Construct("matrix_norm",
            [Z |-> Z, V |-> V, F_con |-> F_con, keep_size |-> keep_size,
             just_filters |-> just_filters],
            matrix_norm(Z, V, F_con, keep_size, just_filters))

Volumes ==
  Tables(2, 2, -1, 1) \cup Tables(1, 2, 0, 1) \cup Tables(2, 1, 0, 1)

\* the flows with the rows and columns that matrix_norm accepts for v
FlowsFor(v) ==
  LET com == v.nr
      n == v.nr * v.nc
  IN  Tables(com, com, -1, 1) \cup Uses(com, n, {1, n})
        \cup Uses(n, com, {1}) \cup Uses(n, n, {1})

\* flows with a number of rows or of columns that fits neither the products
\* nor the products and industries of v
MisfitsFor(v) ==
  LET com == v.nr
      n == v.nr * v.nc
  IN  {Mk(sh[1], sh[2], LAMBDA i, j : ROne) :
         sh \in {<<n + 1, com>>, <<n + 1, n>>, <<n + 1, n + 1>>,
                 <<com, n + 1>>, <<n, n + 1>>}}

\* no extensions, or one stressor for the columns of Z
ExtensionsFor(Z) == {Empty0, Mk(1, Z.nc, LAMBDA i, j : R(j))}

InitN ==
  \E v \in Volumes :
    Constructed(v, Zeros(v.nr, v.nc), None, None, None, None, None, None, 1)

NextN ==
  \E Z \in FlowsFor(V) \cup MisfitsFor(V) :
    \E F_con \in ExtensionsFor(Z), ks \in BOOLEAN, jf \in BOOLEAN :
      calls = 0 /\ call_matrix_norm(Z, F_con, ks, jf)

SpecN == InitN /\ [][NextN]_vars

Normed == ret.op = "matrix_norm" /\ ~Raised(ret.out)
\* what matrix_norm returns on the arguments of the call with keep_size = False
Unkept ==
  matrix_norm(ret.args.Z, ret.args.V, ret.args.F_con, FALSE, FALSE)
\* X is zero in the rows that rows drops and the columns that cols drops
ZeroWhereDropped(X, rows, cols) ==
  \A i \in 1..X.nr, j \in 1..X.nc :
    (~rows.v[i] \/ ~cols.v[j]) => At(X, i, j) = RZero
\* the A of a call that kept sizes is the A of the call that does not, put
\* back into the rows and columns of Z
RestoredA ==
  /\ ret.out.A.nr = ret.args.Z.nr /\ ret.out.A.nc = ret.args.Z.nc
  /\ ZeroWhereDropped(ret.out.A, ret.out.nn_in, ret.out.nn_out)
  /\ SelCols(SelRows(ret.out.A, ret.out.nn_in), ret.out.nn_out) = Unkept.A
\* likewise the S, in the columns of F_con
RestoredS ==
  /\ ret.out.S.nr = ret.args.F_con.nr /\ ret.out.S.nc = ret.args.F_con.nc
  /\ ZeroWhereDropped(ret.out.S, Vec([i \in 1..ret.out.S.nr |-> TRUE]),
                      ret.out.nn_out)
  /\ SelCols(ret.out.S, ret.out.nn_out) = Unkept.S
KeptSize == Normed /\ ret.args.keep_size /\ ~ret.args.just_filters

\* C18 as stated: on every Z, V and F_con that matrix_norm accepts, the A
\* returned under keep_size = True has the rows and columns of Z, is zero in
\* the dropped rows and columns, and restricted to nn_in and nn_out is the A
\* returned under keep_size = False; likewise S with nn_out; and the two
\* calls return the same nn_in and nn_out.
C18_KeepSizeRestoresShape ==
  KeptSize =>
    /\ ret.out.nn_in = Unkept.nn_in /\ ret.out.nn_out = Unkept.nn_out
    /\ RestoredA
    /\ size(ret.args.F_con) # 0 => RestoredS

\* what does hold of C18: the filters always, A when a row and a column
\* are kept, S when a column is kept
C18_HoldsWhenSomethingIsKept ==
  KeptSize =>
    /\ ret.out.nn_in = Unkept.nn_in /\ ret.out.nn_out = Unkept.nn_out
    /\ size(Unkept.A) # 0 => RestoredA
    /\ size(Unkept.S) # 0 => RestoredS
    /\ size(Unkept.A) = 0 => ret.out.A = Unkept.A
    /\ size(Unkept.S) = 0 => ret.out.S = Unkept.S

\* C18's case: sizes kept, a row and a column dropped and others kept, on
\* traceable flows with extensions
C18_Witness ==
  /\ KeptSize
  /\ ret.args.Z.nr > ret.args.V.nr
  /\ size(ret.args.F_con) # 0
  /\ \E i, k \in 1..ret.out.nn_in.n : ret.out.nn_in.v[i] /\ ~ret.out.nn_in.v[k]
  /\ \E j, k \in 1..ret.out.nn_out.n :
       ret.out.nn_out.v[j] /\ ~ret.out.nn_out.v[k]
  /\ ret.out.A # Zeros(ret.args.Z.nr, ret.args.Z.nc)
  /\ RestoredA /\ RestoredS

\* the number n counts the products of the volume, or its products and
\* industries
Fits(n) == n \in {ret.args.V.nr, ret.args.V.nr * ret.args.V.nc}

\* C20: whenever the number of rows of Z, or the number of columns of Z, is
\* neither the number of products nor the number of products times the
\* number of industries of V, matrix_norm raises an error and returns
\* neither filters nor matrices, also when only the filters are asked for.
C20_MisfittingFlowsRaise ==
  (ret.op = "matrix_norm" /\ (~Fits(ret.args.Z.nr) \/ ~Fits(ret.args.Z.nc)))
    => /\ Raised(ret.out)
       /\ DOMAIN ret.out = {"exc"}

\* C20's case: only the filters were asked for, the rows of Z fit and its
\* columns do not, and the call has raised
C20_Witness ==
  /\ ret.op = "matrix_norm" /\ ret.args.just_filters
  /\ Fits(ret.args.Z.nr) /\ ~Fits(ret.args.Z.nc)
  /\ ret.out = Raise("Exception")

(***************************************************************************)
(* The columns of A and of S under SpecC.                                  *)
(***************************************************************************)
ByPrimaryOutput == {"btc", "psc_agg"}
HasFlows == "Z" \in DOMAIN ret.out

\* sizes not kept: column k of A and column k of S are the flows and the
\* extensions of the k-th product that nn_out keeps, over its primary output
SameProductInColumn(k) ==
  LET c == Kept(ret.out.nn_out)[k]
      q == RowSums(V_bar_of(V, E_bar)).v[c]
      rows == Kept(ret.out.nn_in)
  IN  /\ \A i \in 1..ret.out.A.nr :
           RMul(At(ret.out.A, i, k), q) = At(ret.out.Z, rows[i], c)
      /\ \A i \in 1..ret.out.S.nr :
           RMul(At(ret.out.S, i, k), q) = At(ret.out.F_con, i, c)

\* C19: btc and psc_agg filter A and S with the same nn_out.  Sizes not
\* kept, A and S have as many columns as nn_out keeps products, and column
\* k of A and column k of S are those of the same product; sizes kept, A
\* and S have the same columns, and a column that nn_out drops is all zero
\* in A and in S.
C19_SameColumnsInAandS ==
  \A op \in ByPrimaryOutput :
    Returned(op) =>
      /\ ret.out.A.nc = ret.out.S.nc
      /\ ~ret.args.keep_size =>
           /\ ret.out.A.nc = NKept(ret.out.nn_out)
           /\ HasFlows => \A k \in 1..ret.out.A.nc : SameProductInColumn(k)
      /\ ret.args.keep_size =>
           \A j \in 1..ret.out.A.nc :
             ~ret.out.nn_out.v[j] => ZeroCol(ret.out.A, j) /\ ZeroCol(ret.out.S, j)

\* C19's case: psc_agg, sizes not kept, has dropped the first product and
\* kept another, and A and S are not zero
C19_Witness ==
  /\ Returned("psc_agg") /\ ~ret.args.keep_size /\ HasFlows
  /\ ~ret.out.nn_out.v[1]
  /\ NKept(ret.out.nn_out) > 0
  /\ ret.out.A # Zeros(ret.out.A.nr, ret.out.A.nc)
  /\ ret.out.S # Zeros(ret.out.S.nr, ret.out.S.nc)

(***************************************************************************)
(* SpecD: one call of ddiag, on 1-d arrays of up to three entries and on   *)
(* 2-d arrays of one to three rows and columns.                            *)
(***************************************************************************)
call_ddiag(a) == Construct("ddiag", [a |-> a], ddiag(a))

Vectors(n, lo, hi) == {Vec([i \in 1..n |-> R(f[i])]) : f \in [1..n -> lo..hi]}

DiagInputs ==
  UNION {Vectors(n, -1, MaxVal) : n \in 0..3}
    \cup UNION {Tables(sh[1], sh[2], -1, 1) :
                  sh \in {<<1, 1>>, <<1, 2>>, <<2, 1>>, <<1, 3>>, <<3, 1>>,
                          <<2, 2>>, <<2, 3>>, <<3, 2>>}}

InitD == Constructed(V_doc, U_doc, F_doc, None, None, None, None, None, 1)

NextD == \E a \in DiagInputs : calls = 0 /\ call_ddiag(a)

SpecD == InitD /\ [][NextD]_vars

\* the argument of the call of ddiag is a 2-d array with more than one row,
\* more than one column, and not as many rows as columns
Rectangular ==
  /\ ret.op = "ddiag" /\ ndim(ret.args.a) = 2
  /\ ret.args.a.nr > 1 /\ ret.args.a.nc > 1
  /\ ret.args.a.nr # ret.args.a.nc

\* C21 as stated: ddiag on a 2-d array with both dimensions greater than 1
\* and unequal fails instead of returning a matrix.
C21_RectangularRaises == Rectangular => Raised(ret.out)

\* C21: ddiag on a 2-d array with both dimensions greater than 1 and unequal
\* raises nothing: it returns the square matrix of the smaller dimension
\* that has the main diagonal of the array on its diagonal and zero
\* elsewhere.
C21_RectangularGivesLeadingDiagonal ==
  Rectangular =>
    LET a == ret.args.a
        k == IF a.nr < a.nc THEN a.nr ELSE a.nc
    IN  /\ ~Raised(ret.out)
        /\ ret.out.nr = k /\ ret.out.nc = k
        /\ \A i, j \in 1..k :
             At(ret.out, i, j) = IF i = j THEN At(a, i, i) ELSE RZero

\* C21's case: ddiag has returned on a 2 x 3 array without a zero
C21_Witness ==
  /\ Rectangular /\ ~Raised(ret.out)
  /\ ret.args.a.nr = 2 /\ ret.args.a.nc = 3
  /\ \A i \in 1..2, j \in 1..3 : At(ret.args.a, i, j) # RZero
  /\ ret.out.nr = 2

\* the argument of the call of ddiag has one element
SingleElement == ret.op = "ddiag" /\ size(ret.args.a) = 1
TheElement ==
  IF ndim(ret.args.a) = 1 THEN ret.args.a.v[1] ELSE At(ret.args.a, 1, 1)
OneByOne ==
  /\ ~Raised(ret.out)
  /\ ndim(ret.out) = 2 /\ ret.out.nr = 1 /\ ret.out.nc = 1
  /\ At(ret.out, 1, 1) = TheElement

\* C22 as stated: ddiag on an input of one element, a 1-d array of length 1
\* or a 2-d array of shape 1 x 1, returns the 1 x 1 matrix of that element.
C22_SingleElementGivesOneByOne == SingleElement => OneByOne

\* what does hold of C22: the 1-d array of length 1
C22_HoldsOfVectors == (SingleElement /\ ndim(ret.args.a) = 1) => OneByOne

\* C22's case: ddiag has returned the 1 x 1 matrix of a 1-d array of length 1
C22_Witness ==
  /\ SingleElement /\ ndim(ret.args.a) = 1
  /\ TheElement # RZero
  /\ OneByOne

(***************************************************************************)
(* The filters of matrix_norm on product-by-product flows, under SpecN.    *)
(***************************************************************************)
\* matrix_norm has returned on a Z with the products of V in rows and columns
ProductByProduct ==
  /\ Normed
  /\ ret.args.Z.nr = ret.args.V.nr /\ ret.args.Z.nc = ret.args.V.nr
\* the output of product r
Output(r) == RowSums(ret.args.V).v[r]

\* C23 as stated: in matrix_norm on a Z of products by products, nn_in[r] is
\* true exactly when the output q[r] of product r (the row sum of V) is
\* nonzero or row r of Z has a nonzero entry, and nn_out[c] is true exactly
\* when q[c] is nonzero; a row of Z with a nonzero entry is kept.
C23_UsedOrProducedRowsKept ==
  ProductByProduct =>
    /\ \A r \in 1..ret.args.V.nr :
         ret.out.nn_in.v[r] <=> (Output(r) # RZero \/ ~ZeroRow(ret.args.Z, r))
    /\ \A c \in 1..ret.args.V.nr :
         ret.out.nn_out.v[c] <=> Output(c) # RZero

\* what does hold of C23: the column filter, and the row filter with the
\* sum of row r of Z for the use of product r
C23_HoldsOfRowSums ==
  ProductByProduct =>
    /\ \A r \in 1..ret.args.V.nr :
         ret.out.nn_in.v[r] <=>
           (Output(r) # RZero \/ RowSums(ret.args.Z).v[r] # RZero)
    /\ \A c \in 1..ret.args.V.nr :
         ret.out.nn_out.v[c] <=> Output(c) # RZero

\* C23's case: a product without output is kept in the rows for its use and
\* dropped from the columns, and another product is dropped from both
C23_Witness ==
  /\ ProductByProduct /\ ret.args.V.nr = 2
  /\ \E r, k \in 1..2 :
       /\ Output(r) = RZero /\ ~ZeroRow(ret.args.Z, r)
       /\ ret.out.nn_in.v[r] /\ ~ret.out.nn_out.v[r]
       /\ ~ret.out.nn_in.v[k] /\ ~ret.out.nn_out.v[k]

(***************************************************************************)
(* SpecP: one call on an object whose E_bar is given by its owner, any     *)
(* table of zeros and ones of the shape of V (or None).                    *)
(***************************************************************************)
call_V_bar == Construct("V_bar", NoArgs, V_bar_of(V, E_bar))
call_V_tild == Construct("V_tild", NoArgs, V_tild_of(V, E_bar))

ShapesP == {<<1, 1>>, <<2, 2>>, <<3, 2>>}

\* the tables of zeros and ones with at most one 1 in every column
Selections(nr, nc) ==
  {E \in Tables(nr, nc, 0, 1) : \A i \in 1..nc : OnesInColumn(E, i) <= 1}

AllOnes(n) == Mk(n, n, LAMBDA i, j : ROne)

\* the use tables in which product 1 is used
UsesP(nr, nc) == {u \in Uses(nr, nc, {1}) : ~ZeroRow(u, 1)}

\* square tables: signed V, any E_bar of zeros and ones or none, Xi the
\* identity; 3 x 2 tables: V of zeros and ones, E_bar a selection, all
\* products used, Xi the identity or all ones
InitP ==
  \E sh \in ShapesP :
    IF sh[1] = sh[2]
    THEN \E v \in Tables(sh[1], sh[2], -1, 1),
            e \in Tables(sh[1], sh[2], 0, 1) \cup {None},
            u \in UsesP(sh[1], sh[2]) :
           \E f \in {None, F_for(v)} :
             Constructed(v, u, f, PSI_for(v), e, Eye(sh[1]), None, None, 1)
    ELSE \E v \in Tables(sh[1], sh[2], 0, 1), e \in Selections(sh[1], sh[2]),
            x \in {Eye(sh[1]), AllOnes(sh[1])} :
           Constructed(v, Mk(sh[1], sh[2], LAMBDA i, j : ROne), F_for(v),
                       PSI_for(v), e, x, None, None, 1)

NextP ==
  \/ calls = 0 /\ call_V_bar
  \/ calls = 0 /\ call_V_tild
  \/ \E ks \in BOOLEAN : calls = 0 /\ btc(ks)
  \/ \E ks \in BOOLEAN : calls = 0 /\ itc(ks)
  \/ \E ks, ruf \in BOOLEAN : calls = 0 /\ psc_agg(ks, ruf)
  \/ \E ks, ruf \in BOOLEAN : calls = 0 /\ lsc(ks, ruf)

SpecP == InitP /\ [][NextP]_vars

\* E_bar is given and Xi is the identity
PartitionWithIdentity == ~IsNone(E_bar) /\ Xi = Eye(V.nr)
\* what btc() returns on the object, under the keep_size of the last call
AsBtc == btc_of(V, U, F, E_bar, ret.args.keep_size)

\* C24: for every U, V, F and every E_bar of zeros and ones, psc_agg with Xi
\* the identity returns, and returns the A, S, nn_in and nn_out that btc
\* returns on the same object, and the same Z and F_con when the
\* unnormalized flows are requested.
C24_PscAggWithIdentityIsBtc ==
  (ret.op = "psc_agg" /\ PartitionWithIdentity) =>
    /\ Returned("psc_agg")
    /\ ~Raised(AsBtc)
    /\ \A k \in {"A", "S", "nn_in", "nn_out"} : ret.out[k] = AsBtc[k]
    /\ IF ret.args.return_unnormalized_flows
       THEN ret.out.Z = AsBtc.Z /\ ret.out.F_con = AsBtc.F_con
       ELSE DOMAIN ret.out = {"A", "S", "nn_in", "nn_out"}

\* C24's case: psc_agg has returned the flows on a V with secondary
\* production under E_bar, which is not the identity, and with extensions
C24_Witness ==
  /\ Returned("psc_agg") /\ PartitionWithIdentity
  /\ ret.args.return_unnormalized_flows /\ ~ret.args.keep_size
  /\ ~IsNone(F) /\ E_bar # Eye(V.nr)
  /\ V_tild_of(V, E_bar) # Zeros(V.nr, V.nc)
  /\ ret.out.Z # Zeros(V.nr, V.nr)
  /\ ret.out.A.nr = 2

\* E_bar is a table of zeros and ones of the shape of V, or E_bar is absent
\* and V is square
Split ==
  IF IsNone(E_bar) THEN V.nr = V.nc
  ELSE E_bar.nr = V.nr /\ E_bar.nc = V.nc /\ ZeroOne(E_bar)
\* the last call is V_bar() or V_tild(); OtherPart is what the other one
\* returns on the object
PartCalled == ret.op \in {"V_bar", "V_tild"}
OtherPart ==
  IF ret.op = "V_bar" THEN V_tild_of(V, E_bar) ELSE V_bar_of(V, E_bar)
\* V_bar() and V_tild() return, add up to V, and are not both nonzero anywhere
SplitsV ==
  /\ ~Raised(ret.out) /\ ~Raised(OtherPart)
  /\ Plus(ret.out, OtherPart) = V
  /\ \A p \in 1..V.nr, i \in 1..V.nc :
       At(ret.out, p, i) = RZero \/ At(OtherPart, p, i) = RZero
SingleCell == V.nr = 1 /\ V.nc = 1

\* C28: for every V and every E_bar of zeros and ones of the shape of V, and
\* also when E_bar is absent and V is square, V_bar() + V_tild() equals V
\* entry by entry, and at every position at most one of them is nonzero.
C28_PrimaryAndSecondarySplitV == (PartCalled /\ Split) => SplitsV

\* C28 holds of every case but that of a 1 x 1 V without E_bar
C28_HoldsBeyondSingleCell ==
  (PartCalled /\ Split /\ ~(IsNone(E_bar) /\ SingleCell)) => SplitsV

\* C28's failing case: V_bar() has raised ValueError on a 1 x 1 V without
\* E_bar
C28_Witness ==
  /\ ret.op = "V_bar" /\ IsNone(E_bar) /\ SingleCell
  /\ ret.out = Raise("ValueError")

\* C28's case where it holds: V_tild() has returned the secondary supply
\* under an E_bar that marks none of the products of one industry and one
\* product of the other, on a V with no zero entry
C28_WitnessSplit ==
  /\ ret.op = "V_tild" /\ ~IsNone(E_bar) /\ SplitsV
  /\ V.nr = 2 /\ \A p \in 1..2, i \in 1..2 : At(V, p, i) # RZero
  /\ OnesInColumn(E_bar, 1) = 0 /\ OnesInColumn(E_bar, 2) = 1

\* E_bar has exactly one 1 in the column of every industry
OnePerIndustry ==
  /\ ~IsNone(E_bar) /\ ZeroOne(E_bar)
  /\ \A i \in 1..E_bar.nc : OnesInColumn(E_bar, i) = 1
\* every industry has a nonzero total output
AllProduce == \A i \in 1..V.nc : g_V(V).v[i] # RZero
\* the last call allocates the extensions in full
Allocating ==
  \/ ret.op \in {"btc", "psc_agg", "lsc"} /\ OnePerIndustry
  \/ ret.op = "itc" /\ AllProduce
\* the last call hands out the unnormalized flows
FlowsAsked ==
  ret.op \in {"btc", "itc"} \/ ret.args.return_unnormalized_flows

\* C26: for btc, psc_agg and lsc on an E_bar with exactly one 1 in every
\* industry column, and for itc when every industry has a nonzero total
\* output, the call returns, and each row of the unnormalized F_con it
\* returns sums to the sum of the same row of F.
C26_StressorTotalsConserved ==
  (Allocating /\ FlowsAsked /\ ~IsNone(F)) =>
    /\ Returned(ret.op)
    /\ ret.out.F_con.nr = F.nr
    /\ RowSums(ret.out.F_con) = RowSums(F)

\* C26's case: lsc has returned the flows of an object whose industries
\* all have secondary production, both having the same primary product, so
\* that a product gets no stressor at all
C26_Witness ==
  /\ Returned("lsc") /\ Allocating /\ FlowsAsked /\ ~IsNone(F)
  /\ V.nr = 2 /\ \A i \in 1..2 : NonzeroColumn(V_tild_of(V, E_bar), i)
  /\ ZeroRow(E_bar, 2)
  /\ ret.out.F_con = Mk(1, 2, LAMBDA k, p : IF p = 1 THEN R(3) ELSE RZero)

\* C26's case of itc: the flows of industries with by-products are spread
\* over the products, one industry having a negative total output
C26_WitnessItc ==
  /\ Returned("itc") /\ Allocating /\ ~IsNone(F)
  /\ V.nr = 2 /\ RLt(g_V(V).v[1], RZero)
  /\ \A p \in 1..2 : At(ret.out.F_con, 1, p) # RZero

(***************************************************************************)
(* SpecQ: one construct call on an object without secondary production:    *)
(* E_bar marks one product for every industry and V is zero off the marks. *)
(* Xi (com x com) and Gamma (ind x com) are the identity and E_bar.T, or   *)
(* all ones, or all minus ones.                                            *)
(***************************************************************************)
ShapesQ == {<<2, 2>>, <<3, 2>>, <<2, 3>>}

\* the tables of zeros and ones with exactly one 1 in every column
Markings(nr, nc) ==
  {E \in Tables(nr, nc, 0, 1) : \A i \in 1..nc : OnesInColumn(E, i) = 1}

\* the table with the output w[i] of industry i at the product E marks
PrimaryOnly(E, w) ==
  Mk(E.nr, E.nc, LAMBDA p, i : RMul(At(E, p, i), R(w[i])))

\* Xi and Gamma
Substitutions(E) ==
  {<<Eye(E.nr), T(E)>>,
   <<AllOnes(E.nr), Mk(E.nc, E.nr, LAMBDA i, p : ROne)>>,
   <<Scale(RNeg(ROne), AllOnes(E.nr)),
     Mk(E.nc, E.nr, LAMBDA i, p : RNeg(ROne))>>}

InitQ ==
  \E sh \in ShapesQ :
    \E e \in Markings(sh[1], sh[2]),
       w \in [1..sh[2] -> (IF sh[1] = sh[2] THEN -1..MaxVal ELSE 0..1)],
       u \in UsesP(sh[1], sh[2]) :
      \E f \in {None, F_for(e)}, xg \in Substitutions(e) :
        Constructed(PrimaryOnly(e, w), u, f, PSI_for(e), e, xg[1], xg[2],
                    None, 1)

NextQ ==
  \/ \E ks \in BOOLEAN : calls = 0 /\ btc(ks)
  \/ \E ks, ruf \in BOOLEAN : calls = 0 /\ psc_agg(ks, ruf)
  \/ \E ks, ruf \in BOOLEAN : calls = 0 /\ lsc(ks, ruf)
  \/ \E nmax \in {0, MaxN}, res_tol \in {0, MaxTol}, ks \in BOOLEAN :
       calls = 0 /\ aac_agg(nmax, res_tol, ks)
  \/ aac_agg_loop
  \/ aac_agg_return

SpecQ == InitQ /\ [][NextQ]_vars

\* no industry has secondary production
NoSecondary == OnePerIndustry /\ V_tild_of(V, E_bar) = Zeros(V.nr, V.nc)
\* the flows U.E_bar^T, and their normalisation by V
PrimaryFlows == Dot(U, T(E_bar))
PrimaryNorm ==
  matrix_norm(PrimaryFlows, V, F_alloc(F, T(E_bar)), ret.args.keep_size,
              FALSE)
ByMarking == {"btc", "psc_agg", "lsc", "aac_agg"}
Finished == "running" \notin DOMAIN ret.out

\* C25: when no industry has secondary production (V is zero off E_bar, and
\* E_bar has one 1 in every industry column), btc, psc_agg with any Xi, lsc,
\* and aac_agg with any Gamma and res_tol >= 0 all return; they return the
\* same A, S, nn_in and nn_out, those of U.E_bar^T normalised by V, and the
\* Z they return is U.E_bar^T.  The loop of aac_agg makes at most one pass.
C25_AllCoincideWithoutSecondary ==
  /\ (ret.op \in ByMarking /\ NoSecondary /\ Finished) =>
       /\ Returned(ret.op)
       /\ ~Raised(PrimaryNorm)
       /\ \A k \in {"A", "S", "nn_in", "nn_out"} :
            ret.out[k] = PrimaryNorm[k]
       /\ "Z" \in DOMAIN ret.out => ret.out.Z = PrimaryFlows
       /\ "Z" \in DOMAIN ret.out <=>
            (ret.op \in {"btc", "aac_agg"}
               \/ ret.args.return_unnormalized_flows)
  /\ (pc = "loop" /\ NoSecondary) =>
       /\ loc.n <= 2
       /\ loc.n = 2 => ~loop_cond(loc)

\* C25's case: aac_agg has returned after a pass of its loop, with a Gamma
\* and a sum of tiers that are not zero, on an E_bar that is not the
\* identity and a use table with a nonzero A
C25_Witness ==
  /\ Returned("aac_agg") /\ NoSecondary
  /\ ret.solver.n = 2
  /\ ret.solver.A_gamma # Zeros(V.nr, V.nr)
  /\ E_bar # Eye(V.nr)
  /\ ret.out.A # Zeros(V.nr, V.nr)
  /\ ret.out.Z = PrimaryFlows

\* every industry and every product has a nonzero total output
AllOutputsNonzero ==
  /\ \A i \in 1..V.nc : g_V(V).v[i] # RZero
  /\ \A p \in 1..V.nr : q_V(V).v[p] # RZero
Legacy == ret.op = "Build_ITC_A_matrix_cxc"

\* C27: for every U and V with every g and q nonzero, the legacy
\* Build_ITC_A_matrix_cxc returns the matrix that itc() returns as A (under
\* either keep_size); when some g or q is zero the legacy method raises an
\* error (ValueError), while itc() returns a result.
C27_LegacyItcAgreesWhereDefined ==
  /\ (Legacy /\ AllOutputsNonzero) =>
       /\ ~Raised(ret.out)
       /\ \A ks \in BOOLEAN :
            /\ ~Raised(itc_of(V, U, F, ks))
            /\ ret.out.A_ITC_cxc = itc_of(V, U, F, ks).A
  /\ (Legacy /\ ~AllOutputsNonzero) =>
       Raised(ret.out) /\ ret.out.exc = "ValueError"
  /\ (ret.op = "itc" /\ ~AllOutputsNonzero) => Returned("itc")

\* C27's case: the legacy method has returned a nonzero matrix on a table
\* with a negative entry, by-products, and a product output that is not 1
C27_Witness ==
  /\ Legacy /\ AllOutputsNonzero /\ ~Raised(ret.out)
  /\ ret.out.A_ITC_cxc = itc_of(V, U, F, TRUE).A
  /\ \E p \in 1..V.nr, i \in 1..V.nc : RLt(At(V, p, i), RZero)
  /\ \E p \in 1..V.nr : q_V(V).v[p] \notin {ROne, RNeg(ROne)}
  /\ \A p \in 1..V.nr, i \in 1..V.nc : At(V, p, i) # RZero
  /\ \A p, r \in 1..V.nr : At(ret.out.A_ITC_cxc, p, r) # RZero

\* C27's other case: the legacy method has raised on a table whose
\* industries all produce but one of whose products has a zero total output
C27_WitnessSingular ==
  /\ Legacy /\ Raised(ret.out)
  /\ "g_hat_inv" \in DOMAIN ret.out
  /\ ~ZeroRow(V, 1) /\ q_V(V).v[1] = RZero
  /\ ~Raised(itc_of(V, U, F, TRUE))
  /\ itc_of(V, U, F, TRUE).A # Zeros(V.nr, V.nr)

====
